---- MODULE Spec2Model ----
(***************************************************************************)
(* Model of github.com/xiaoyang-chen/tracer: the tracer facade (tracerImpl *)
(* over an opentracing.Tracer that is either the jaeger tracer or the      *)
(* no-op substitution), the request-scoped context association, and the    *)
(* instrumented fasthttp request pipeline (fasthttpReq).                   *)
(***************************************************************************)
EXTENDS Integers, Sequences, FiniteSets, TLC

\* ------------------------------------------------------------------ bounds
MaxSpans == 2       \* Spec: spans the jaeger tracer starts in one behaviour
MaxSpanCtxs == 1    \* Spec: contexts derived in one behaviour
MaxCtxs == 2        \* SpecCtx: contexts derived in one behaviour
MaxCtxSpans == 1    \* SpecCtx: spans started in one behaviour
MaxCbs == 2         \* response callbacks passed to one pipeline call
MaxWrites == 2      \* SpecMw: WriteHeader calls of the handler for one request
MaxInjectSpans == 2 \* SpecInject: spans, the prepared one included
MaxShareCtxs == 3   \* SpecShare: context objects, prepared ones included,
                    \* up to which the facade derives

\* ------------------------------------------------------------------ values
NilSpan == 0        \* a nil opentracing.Span
NoopSpanH == -1     \* defaultNoopSpan, the one shared no-op span
NilCtx == 0         \* a nil context.Context
Background == 1     \* context.Background(), the first context object
RemoteTrace == 101  \* trace id of an identity started by another process
RemoteSpan == 102   \* span id of that identity
ForeignTrace == 201 \* trace id of a second identity of another process
ForeignSpan == 202  \* span id of that identity

\* opentracing.SpanContext values: nil, noopSpanContext{}, or a jaeger
\* identity (trace id, span id, parent id, sampling flags).
NilSC ==
    [kind |-> "nil", trace |-> 0, span |-> 0, parent |-> 0, flags |-> 0,
     baggage |-> {}]
defaultNoopSpanContext ==
    [kind |-> "noop", trace |-> 0, span |-> 0, parent |-> 0, flags |-> 0,
     baggage |-> {}]
\* A jaeger identity just parsed or started carries no baggage; baggage is
\* a set of key/value items.
JaegerSC(t, s, p, f) ==
    [kind |-> "jaeger", trace |-> t, span |-> s, parent |-> p, flags |-> f,
     baggage |-> {}]
emptyContext == JaegerSC(0, 0, 0, 0)
RemoteSC == JaegerSC(RemoteTrace, RemoteSpan, 0, 1)
ForeignSC == JaegerSC(ForeignTrace, ForeignSpan, 0, 1)

\* opentracing.SpanReference: ChildOf(ctx) / FollowsFrom(ctx)
ChildOfRef == "child_of"
FollowsFromRef == "follows_from"
ChildOf(sc) == [type |-> ChildOfRef, ctx |-> sc]
FollowsFrom(sc) == [type |-> FollowsFromRef, ctx |-> sc]

\* ------------------------------------------------------------ header keys
OtMwTraceContextHeaderName == "ot-mw-trace-id"
otMwTraceBaggageHeaderPrefix == "ot-mw-ctx-"
HeaderKeys ==
    {"ot-mw-trace-id", "Ot-Mw-Trace-Id", "Content-Type", "content-type",
     "X-Other", "x-other"}

\* The baggage keys of this model, and the header key of each.
BaggageKeys == {"userId", "tenant"}

\* fasthttp normalizes a header key on Set and on parse, and http.Header
\* canonicalizes it on Set: the first letter and every letter after a '-'
\* upper-cased, the rest lower-cased.
NormalizeHeaderKey(k) ==
    CASE k \in {"ot-mw-trace-id", "Ot-Mw-Trace-Id"} -> "Ot-Mw-Trace-Id"
      [] k \in {"Content-Type", "content-type"} -> "Content-Type"
      [] k \in {"X-Other", "x-other"} -> "X-Other"
      [] k \in {"ot-mw-ctx-userId", "Ot-Mw-Ctx-Userid"} -> "Ot-Mw-Ctx-Userid"
      [] k \in {"ot-mw-ctx-tenant", "Ot-Mw-Ctx-Tenant"} -> "Ot-Mw-Ctx-Tenant"

\* strings.ToLower, applied by the jaeger propagator to every key it reads.
ToLower(k) ==
    CASE k \in {"ot-mw-trace-id", "Ot-Mw-Trace-Id"} -> "ot-mw-trace-id"
      [] k \in {"Content-Type", "content-type"} -> "content-type"
      [] k \in {"X-Other", "x-other"} -> "x-other"
      [] k \in {"ot-mw-ctx-userId", "Ot-Mw-Ctx-Userid"} -> "ot-mw-ctx-userid"
      [] k \in {"ot-mw-ctx-tenant", "Ot-Mw-Ctx-Tenant"} -> "ot-mw-ctx-tenant"
      [] k \in {"userId", "userid"} -> "userid"
      [] k = "tenant" -> "tenant"

\* TextMapPropagator.addPrefix / removePrefix on a baggage key.
addPrefix(k) == otMwTraceBaggageHeaderPrefix \o k
HasBaggagePrefix(key) == \E k \in BaggageKeys : addPrefix(ToLower(k)) = key
\* A variant that keeps the prefix on the extracted baggage key.
removePrefixKept(key) == key

removePrefix(key) ==
    ToLower(CHOOSE k \in BaggageKeys : addPrefix(ToLower(k)) = key)

\* Header values are ':'-separated fields; a field that is a hexadecimal
\* number is that number, any other field is a negative token.
ApplicationJson == <<-1>>   \* "application/json"
TextPlain == <<-2>>         \* a caller's own content type
Garbage == <<-3, -3>>       \* a value that is no trace context
OtherValue == <<-4>>        \* the value of an unrelated header

\* jaeger SpanContext.String(): "trace:span:parent:flags"
SpanContextString(sc) == <<sc.trace, sc.span, sc.parent, sc.flags>>

\* jaeger ContextFromString: four hexadecimal fields or an error, in which
\* case the context returned is emptyContext.
ContextFromString(v) ==
    IF Len(v) = 4 /\ \A i \in 1..4 : v[i] >= 0
    THEN [sc |-> JaegerSC(v[1], v[2], v[3], v[4]), err |-> FALSE]
    ELSE [sc |-> emptyContext, err |-> TRUE]

Pair(k, v) == [key |-> k, val |-> v]

VARIABLES
    tracer,        \* ti.tracer: "jaeger" or "noop" (InitEmptyTracer)
    spans,         \* the spans the jaeger tracer has started, by handle
    ctxs,          \* the context objects allocated so far, by address
    last,          \* the arguments and results of the last facade call
    calls,         \* per goroutine: the fasthttpReq activation it runs
    requestPool,   \* fasthttp's pool of free Request objects
    responsePool,  \* fasthttp's pool of free Response objects
    reqObjs,       \* the Request objects allocated so far, by address
    respObjs,      \* the Response objects allocated so far, by address
    mw             \* the inbound request the HTTP middleware is serving

vars == <<tracer, spans, ctxs, last, calls, requestPool, responsePool,
          reqObjs, respObjs, mw>>
facadeVars == <<tracer, spans, ctxs, last>>
pipeVars == <<calls, requestPool, responsePool, reqObjs, respObjs>>

\* ------------------------------------------------------- opentracing.Tracer
NoErr == "nil"
ErrSpanContextNotFound == "opentracing: SpanContext not found in Extract carrier"
ErrDecode == "jaeger: malformed trace context"
ErrInject == "opentracing: Inject failed"

\* What a tracer call returns: the span table after it, the span handle, and
\* the StartSpanOptions references it was called with.
Started(sp, h, opts) == [spans |-> sp, span |-> h, opts |-> opts]

\* jaeger isValidReference, for the identities modelled here.
isValidReference(sc) == sc.kind = "jaeger" /\ sc.trace # 0

\* The reference a new jaeger span takes as its parent: the first ChildOf
\* reference, or else the first reference of any type.
ParentRef(refs) ==
    LET childs == SelectSeq(refs, LAMBDA r : r.type = ChildOfRef)
    IN  IF childs # <<>> THEN childs[1] ELSE refs[1]

\* jaeger Tracer.StartSpan under the const sampler (param 1): a root span
\* opens a new sampled trace whose id is its span id; a span with a valid
\* reference joins the parent's trace, inherits the parent's baggage and
\* keeps every valid reference.
JaegerStartSpan(sp, opName, opts) ==
    LET refs == SelectSeq(opts, LAMBDA r : isValidReference(r.ctx))
        id == Len(sp) + 1
        sc == IF refs = <<>>
              THEN JaegerSC(id, id, 0, 1)
              ELSE [JaegerSC(ParentRef(refs).ctx.trace, id,
                             ParentRef(refs).ctx.span, ParentRef(refs).ctx.flags)
                       EXCEPT !.baggage = ParentRef(refs).ctx.baggage]
    IN  Started(Append(sp, [op |-> opName, refs |-> refs, ctx |-> sc,
                            finished |-> 0, logs |-> <<>>]), id, opts)

\* noopTracer.StartSpan
NoopStartSpan(sp, opName, opts) == Started(sp, NoopSpanH, opts)

\* ti.tracer.StartSpan(opName, opts...)
TracerStartSpan(sp, opName, opts) ==
    IF tracer = "noop" THEN NoopStartSpan(sp, opName, opts)
    ELSE JaegerStartSpan(sp, opName, opts)

\* span.Context()
SpanContextOf(sp, h) ==
    IF h = NoopSpanH THEN defaultNoopSpanContext ELSE sp[h].ctx

\* span.Finish(): noopSpan.Finish does nothing, a jaeger span counts it.
SpanFinish(sp, h) ==
    IF h = NoopSpanH THEN sp
    ELSE [sp EXCEPT ![h].finished = sp[h].finished + 1]

\* ------------------------------------------------------------ carriers
\* The jaeger TextMapPropagator's visit handler: a trace-context key parses
\* its value into ctx (emptyContext on failure), a key with the baggage
\* prefix adds a baggage item under the rest of the lower-cased key, any
\* other key is ignored.
PropagatorVisit(ctx, pair) ==
    LET key == ToLower(pair.key)
    IN  IF key = OtMwTraceContextHeaderName
        THEN LET r == ContextFromString(pair.val)
             IN  [ctx |-> [r.sc EXCEPT !.baggage = ctx.baggage],
                  err |-> r.err, seen |-> 1]
        ELSE IF HasBaggagePrefix(key)
             THEN [ctx |-> [ctx EXCEPT !.baggage =
                              {i \in @ : i.key # removePrefix(key)}
                                  \cup {Pair(removePrefix(key), pair.val)}],
                   err |-> FALSE, seen |-> 1]
             ELSE [ctx |-> ctx, err |-> FALSE, seen |-> 1]

\* opentracing.HTTPHeadersCarrier.ForeachKey: returns at the first error.
RECURSIVE HTTPHeadersCarrierForeachKey(_, _, _)
HTTPHeadersCarrierForeachKey(pairs, ctx, n) ==
    IF pairs = <<>> THEN [ctx |-> ctx, err |-> FALSE, seen |-> n]
    ELSE LET r == PropagatorVisit(ctx, Head(pairs))
         IN  IF r.err THEN [ctx |-> r.ctx, err |-> TRUE, seen |-> n + 1]
             ELSE HTTPHeadersCarrierForeachKey(Tail(pairs), r.ctx, n + 1)

\* fasthttpRespHeaderCarrier.ForeachKey: VisitAll visits every pair and err
\* is whatever the handler returned for the last pair visited.
RECURSIVE fasthttpRespHeaderCarrierForeachKey(_, _, _, _)
fasthttpRespHeaderCarrierForeachKey(pairs, ctx, err, n) ==
    IF pairs = <<>> THEN [ctx |-> ctx, err |-> err, seen |-> n]
    ELSE LET r == PropagatorVisit(ctx, Head(pairs))
         IN  fasthttpRespHeaderCarrierForeachKey(Tail(pairs), r.ctx, r.err, n + 1)

\* jaeger TextMapPropagator.Extract on the outcome of ForeachKey.
PropagatorExtract(r) ==
    IF r.err THEN [spanCtx |-> emptyContext, err |-> ErrDecode]
    ELSE IF r.ctx.trace = 0
         THEN [spanCtx |-> emptyContext, err |-> ErrSpanContextNotFound]
         ELSE [spanCtx |-> r.ctx, err |-> NoErr]

\* ti.tracer.Extract: noopTracer.Extract returns defaultNoopSpanContext and
\* no error; the jaeger tracer returns a nil SpanContext with every error.
TracerExtract(r) ==
    IF tracer = "noop" THEN [spanCtx |-> defaultNoopSpanContext, err |-> NoErr]
    ELSE LET e == PropagatorExtract(r)
         IN  IF e.err # NoErr THEN [spanCtx |-> NilSC, err |-> e.err] ELSE e

extractFromHttpHeader(header) ==
    TracerExtract(HTTPHeadersCarrierForeachKey(header, emptyContext, 0))

extractFromFasthttpHeader(header) ==
    TracerExtract(
        fasthttpRespHeaderCarrierForeachKey(header, emptyContext, FALSE, 0))

\* ------------------------------------------------------------ contexts
activeSpanKey == "activeSpanKey"
NoVal == [tag |-> "none", span |-> NilSpan, sc |-> NilSC]
SpanVal(h) == [tag |-> "span", span |-> h, sc |-> NilSC]
SpanCtxVal(sc) == [tag |-> "spanctx", span |-> NilSpan, sc |-> sc]
backgroundCtx == [parent |-> NilCtx, key |-> "", val |-> NoVal]

\* A variant that prefers the value of the outermost enclosing context.
RECURSIVE CtxValueOutermost(_, _)
CtxValueOutermost(cx, ctx) ==
    IF ctx = NilCtx THEN NoVal
    ELSE LET outer == CtxValueOutermost(cx, cx[ctx].parent)
         IN  IF outer # NoVal THEN outer
             ELSE IF cx[ctx].key = activeSpanKey THEN cx[ctx].val ELSE NoVal

\* ctx.Value(activeSpanKey): the value of the nearest enclosing context
\* object that was created with that key.
RECURSIVE CtxValue(_, _)
CtxValue(cx, ctx) ==
    IF ctx = NilCtx THEN NoVal
    ELSE IF cx[ctx].key = activeSpanKey THEN cx[ctx].val
         ELSE CtxValue(cx, cx[ctx].parent)

Derived(cx, ctx) == [ctxs |-> cx, ctx |-> ctx]

\* A variant that stores the value in the context object it was given.
WithValueInPlace(cx, parent, val) ==
    Derived([cx EXCEPT ![parent] = [@ EXCEPT !.key = activeSpanKey, !.val = val]],
            parent)

\* context.WithValue(parent, activeSpanKey, val): a new context object.
WithValue(cx, parent, val) ==
    Derived(Append(cx, [parent |-> parent, key |-> activeSpanKey, val |-> val]),
            Len(cx) + 1)

spanInfoFromContext(cx, ctx) ==
    IF ctx = NilCtx THEN [span |-> NilSpan, spanCtx |-> NilSC]
    ELSE LET v == CtxValue(cx, ctx)
         IN  CASE v.tag = "span" -> [span |-> v.span, spanCtx |-> NilSC]
               [] v.tag = "spanctx" -> [span |-> NilSpan, spanCtx |-> v.sc]
               [] OTHER -> [span |-> NilSpan, spanCtx |-> NilSC]

\* ------------------------------------------------------------- tracerImpl
tiStartSpan(sp, opName) == TracerStartSpan(sp, opName, <<>>)

\* A variant that returns nothing for a nil parent.
ChildSpanFromParentNilForNil(sp, opName, parent) ==
    IF parent = NilSpan THEN Started(sp, NilSpan, <<>>)
    ELSE TracerStartSpan(sp, opName, <<ChildOf(SpanContextOf(sp, parent))>>)

ChildSpanFromParent(sp, opName, parent) ==
    IF parent = NilSpan THEN tiStartSpan(sp, opName)
    ELSE TracerStartSpan(sp, opName, <<ChildOf(SpanContextOf(sp, parent))>>)

\* A variant that records the parent as a child-of reference.
FollowerSpanFromParentAsChild(sp, opName, parent) ==
    IF parent = NilSpan THEN tiStartSpan(sp, opName)
    ELSE TracerStartSpan(sp, opName, <<ChildOf(SpanContextOf(sp, parent))>>)

FollowerSpanFromParent(sp, opName, parent) ==
    IF parent = NilSpan THEN tiStartSpan(sp, opName)
    ELSE TracerStartSpan(sp, opName, <<FollowsFrom(SpanContextOf(sp, parent))>>)

\* A variant that only looks for a live span in the context.
ChildSpanFromContextSpanOnly(sp, cx, opName, ctx) ==
    LET info == spanInfoFromContext(cx, ctx)
    IN  IF info.span # NilSpan THEN ChildSpanFromParent(sp, opName, info.span)
        ELSE tiStartSpan(sp, opName)

ChildSpanFromContext(sp, cx, opName, ctx) ==
    LET info == spanInfoFromContext(cx, ctx)
    IN  IF info.span # NilSpan THEN ChildSpanFromParent(sp, opName, info.span)
        ELSE IF info.spanCtx # NilSC
             THEN TracerStartSpan(sp, opName, <<ChildOf(info.spanCtx)>>)
             ELSE tiStartSpan(sp, opName)

FollowerSpanFromContext(sp, cx, opName, ctx) ==
    LET info == spanInfoFromContext(cx, ctx)
    IN  IF info.span # NilSpan THEN FollowerSpanFromParent(sp, opName, info.span)
        ELSE IF info.spanCtx # NilSC
             THEN TracerStartSpan(sp, opName, <<FollowsFrom(info.spanCtx)>>)
             ELSE tiStartSpan(sp, opName)

getSpanFromHttpHeader(sp, opName, header, refType) ==
    LET e == extractFromHttpHeader(header)
    IN  IF e.spanCtx = NilSC THEN TracerStartSpan(sp, opName, <<>>)
        ELSE IF refType = ChildOfRef
             THEN TracerStartSpan(sp, opName, <<ChildOf(e.spanCtx)>>)
             ELSE TracerStartSpan(sp, opName, <<FollowsFrom(e.spanCtx)>>)

getSpanFromFasthttpHeader(sp, opName, header, refType) ==
    LET e == extractFromFasthttpHeader(header)
    IN  IF e.spanCtx = NilSC THEN TracerStartSpan(sp, opName, <<>>)
        ELSE IF refType = ChildOfRef
             THEN TracerStartSpan(sp, opName, <<ChildOf(e.spanCtx)>>)
             ELSE TracerStartSpan(sp, opName, <<FollowsFrom(e.spanCtx)>>)

\* A variant that returns the context it was given.
ContextWithSpanDropped(cx, ctx, span) == Derived(cx, ctx)

ContextWithSpan(cx, ctx, span) ==
    IF ctx = NilCtx \/ span = NilSpan THEN Derived(cx, ctx)
    ELSE WithValue(cx, ctx, SpanVal(span))

CtxWithSpanCtxFromHttpHeader(cx, ctx, header) ==
    IF ctx = NilCtx THEN Derived(cx, NilCtx)
    ELSE LET e == extractFromHttpHeader(header)
         IN  IF e.spanCtx = NilSC THEN Derived(cx, ctx)
             ELSE WithValue(cx, ctx, SpanCtxVal(e.spanCtx))

\* A variant that leaves a context holding a live Span as it is.
CtxWithSpanCtxFromFasthttpHeaderKeepsSpan(cx, ctx, header) ==
    LET e == extractFromFasthttpHeader(header)
    IN  IF ctx = NilCtx THEN Derived(cx, NilCtx)
        ELSE IF e.spanCtx = NilSC \/ CtxValue(cx, ctx).tag = "span"
             THEN Derived(cx, ctx)
             ELSE WithValue(cx, ctx, SpanCtxVal(e.spanCtx))

\* A variant that derives from the background context when given nil.
CtxWithSpanCtxFromFasthttpHeaderOnBackground(cx, ctx, header) ==
    LET e == extractFromFasthttpHeader(header)
        from == IF ctx = NilCtx THEN Background ELSE ctx
    IN  IF e.spanCtx = NilSC THEN Derived(cx, from)
        ELSE WithValue(cx, from, SpanCtxVal(e.spanCtx))

CtxWithSpanCtxFromFasthttpHeader(cx, ctx, header) ==
    IF ctx = NilCtx THEN Derived(cx, NilCtx)
    ELSE LET e == extractFromFasthttpHeader(header)
         IN  IF e.spanCtx = NilSC THEN Derived(cx, ctx)
             ELSE WithValue(cx, ctx, SpanCtxVal(e.spanCtx))

\* --------------------------------------------------------- header inputs
TraceHeader(v) == Pair("Ot-Mw-Trace-Id", v)
OtherHeader == Pair("X-Other", OtherValue)

\* The inbound headers the facade is called with: none, a remote identity
\* after an unrelated header, a malformed trace context before or after an
\* unrelated header.
HeaderInputs ==
    { <<>>,
      <<OtherHeader, Pair("ot-mw-trace-id", SpanContextString(RemoteSC))>>,
      <<TraceHeader(Garbage), OtherHeader>>,
      <<OtherHeader, TraceHeader(Garbage)>> }

\* The span handles a caller can hold: nil, and the spans started so far
\* (the shared no-op span under the no-op substitution).
SpanInputs ==
    IF tracer = "noop" THEN {NilSpan, NoopSpanH} ELSE {NilSpan} \cup DOMAIN spans

CtxInputs == {NilCtx} \cup DOMAIN ctxs

\* ------------------------------------------------------ fasthttp objects
\* A []byte: nil, a buffer of its own (of = 0, holding bytes), or the
\* buffer of the pooled Response of, which Response.Body() returns.
NilBody == [nil |-> TRUE, of |-> 0, bytes |-> <<>>]
Body(bytes) == [nil |-> FALSE, of |-> 0, bytes |-> bytes]
BodyOf(obj) == [nil |-> FALSE, of |-> obj, bytes |-> <<>>]

\* The bytes a reader of the slice finds, given the pooled Responses.
Contents(objs, body) ==
    IF body.of # 0 THEN objs[body.of].body ELSE body.bytes
NoHeader == [k \in {} |-> <<>>]

\* A Request / Response as Reset leaves it.
EmptyRequest ==
    [header |-> NoHeader, cookies |-> NoHeader, body |-> <<>>,
     uri |-> "", method |-> ""]
EmptyResponse == [header |-> <<>>, body |-> <<>>]

\* RequestHeader.Set(key, value): the key is normalized, the value replaced.
RequestHeaderSet(h, key, value) ==
    [k \in DOMAIN h \cup {NormalizeHeaderKey(key)} |->
        IF k = NormalizeHeaderKey(key) THEN value ELSE h[k]]

\* What sync.Pool.Get can give: any free object, or nothing, in which case
\* Acquire allocates a new one at the next address.
AcquireChoices(pool, objs) == pool \cup {Len(objs) + 1}

Acquired(pool, objs, obj, empty) ==
    [pool |-> pool \ {obj},
     objs |-> IF obj \in DOMAIN objs THEN objs ELSE Append(objs, empty),
     obj |-> obj]

\* fasthttp.AcquireRequest / AcquireResponse, given the pool's choice.
AcquireRequest(pool, objs, obj) == Acquired(pool, objs, obj, EmptyRequest)
AcquireResponse(pool, objs, obj) == Acquired(pool, objs, obj, EmptyResponse)

\* fasthttp.ReleaseRequest / ReleaseResponse: Reset, then Put.
Released(pool, objs, obj, empty) ==
    [pool |-> pool \cup {obj}, objs |-> [objs EXCEPT ![obj] = empty]]
ReleaseRequest(pool, objs, obj) == Released(pool, objs, obj, EmptyRequest)
ReleaseResponse(pool, objs, obj) == Released(pool, objs, obj, EmptyResponse)

\* ------------------------------------------------------------ injection
\* The elements of a finite set in one of the orders a range over a Go map
\* can take.
SeqOf(S) ==
    CHOOSE q \in [1..Cardinality(S) -> S] :
        {q[i] : i \in 1..Cardinality(S)} = S

\* The header key a baggage item is written under, as the header stores it.
BaggageHeaderKey(item) == NormalizeHeaderKey(addPrefix(item.key))

\* ti.tracer.Inject into a fasthttp.RequestHeader. noopTracer.Inject does
\* nothing; the jaeger propagator sets the trace-context key and one key
\* per baggage item. fails is the tracer's choice to reject the call, which
\* the opentracing.Tracer contract allows.
TracerInject(sc, header, fails) ==
    IF tracer = "noop" THEN [header |-> header, err |-> NoErr]
    ELSE IF fails \/ sc.kind # "jaeger" THEN [header |-> header, err |-> ErrInject]
         ELSE LET h == RequestHeaderSet(header, OtMwTraceContextHeaderName,
                                        SpanContextString(sc))
                  keys == {BaggageHeaderKey(i) : i \in sc.baggage}
              IN  [header |->
                      [k \in DOMAIN h \cup keys |->
                          IF k \in keys
                          THEN (CHOOSE i \in sc.baggage :
                                    BaggageHeaderKey(i) = k).val
                          ELSE h[k]],
                   err |-> NoErr]

injectSpanCtx2FasthttpHeader(sc, header, fails) == TracerInject(sc, header, fails)

\* A variant that injects nothing.
Inject2FasthttpHeaderSkipped(sp, span, header, fails) ==
    [header |-> header, err |-> NoErr]

Inject2FasthttpHeader(sp, span, header, fails) ==
    IF span # NilSpan
    THEN injectSpanCtx2FasthttpHeader(SpanContextOf(sp, span), header, fails)
    ELSE [header |-> header, err |-> NoErr]

\* ------------------------------------------------------- request building
\* http.Header.Set(key, value) through opentracing.HTTPHeadersCarrier: the
\* key is canonicalized, the values under it replaced.
HttpHeaderSet(h, key, value) ==
    SelectSeq(h, LAMBDA p : NormalizeHeaderKey(p.key) # NormalizeHeaderKey(key))
        \o <<Pair(NormalizeHeaderKey(key), value)>>

\* ti.tracer.Inject into an http.Header: the trace-context key, then one
\* key per baggage item.
injectSpanCtx2HttpHeader(sc, header, fails) ==
    IF tracer = "noop" THEN [header |-> header, err |-> NoErr]
    ELSE IF fails \/ sc.kind # "jaeger" THEN [header |-> header, err |-> ErrInject]
         ELSE LET h == HttpHeaderSet(header, OtMwTraceContextHeaderName,
                                     SpanContextString(sc))
                  keys == {BaggageHeaderKey(i) : i \in sc.baggage}
                  items == SeqOf(sc.baggage)
              IN  [header |->
                      SelectSeq(h, LAMBDA p : NormalizeHeaderKey(p.key) \notin keys)
                        \o [n \in 1..Len(items) |->
                               Pair(BaggageHeaderKey(items[n]), items[n].val)],
                   err |-> NoErr]

\* A variant under which the no-op tracer also writes the identity.
Inject2HttpHeaderWrites(sp, span, header, fails) ==
    IF span # NilSpan
    THEN [header |-> HttpHeaderSet(header, OtMwTraceContextHeaderName,
                                   SpanContextString(SpanContextOf(sp, span))),
          err |-> NoErr]
    ELSE [header |-> header, err |-> NoErr]

Inject2HttpHeader(sp, span, header, fails) ==
    IF span # NilSpan
    THEN injectSpanCtx2HttpHeader(SpanContextOf(sp, span), header, fails)
    ELSE [header |-> header, err |-> NoErr]

\* A variant that injects only from a live Span, never from a stored
\* SpanContext.
Inject2HttpHeaderByCtxSpanOnly(sp, cx, ctx, header, fails) ==
    LET info == spanInfoFromContext(cx, ctx)
    IN  IF info.span # NilSpan
        THEN injectSpanCtx2HttpHeader(SpanContextOf(sp, info.span), header, fails)
        ELSE [header |-> header, err |-> NoErr]

Inject2HttpHeaderByCtx(sp, cx, ctx, header, fails) ==
    LET info == spanInfoFromContext(cx, ctx)
    IN  IF info.span # NilSpan
        THEN injectSpanCtx2HttpHeader(SpanContextOf(sp, info.span), header, fails)
        ELSE IF info.spanCtx # NilSC
             THEN injectSpanCtx2HttpHeader(info.spanCtx, header, fails)
             ELSE [header |-> header, err |-> NoErr]

Inject2FasthttpHeaderByCtx(sp, cx, ctx, header, fails) ==
    LET info == spanInfoFromContext(cx, ctx)
    IN  IF info.span # NilSpan
        THEN injectSpanCtx2FasthttpHeader(SpanContextOf(sp, info.span), header,
                                          fails)
        ELSE IF info.spanCtx # NilSC
             THEN injectSpanCtx2FasthttpHeader(info.spanCtx, header, fails)
             ELSE [header |-> header, err |-> NoErr]

NilData == "nil"
GoodData == "struct"        \* a value json can marshal
BadData == "chan"           \* a value json cannot marshal
ErrMarshal == "json: unsupported type"
ErrTransport == "dial tcp: connection refused"
ErrTimeout == "timeout"
JsonBytes == <<123, 125>>   \* the marshalled body, "{}"
BodyBytes == <<112, 111>>   \* a response body

\* jsonSerializer.Marshal
Marshal(data) ==
    IF data = BadData THEN [body |-> <<>>, err |-> ErrMarshal]
    ELSE [body |-> JsonBytes, err |-> NoErr]

setFasthttpReqBodyByJsonData(req, data) ==
    LET m == Marshal(data)
    IN  IF m.err # NoErr THEN [req |-> req, err |-> m.err]
        ELSE [req |-> [req EXCEPT !.body = m.body], err |-> NoErr]

\* A variant that keeps the value of a key the request already holds.
setFasthttpReqHeaderByMapKeepsSet(req, mapHeader) ==
    [req EXCEPT !.header =
        [k \in DOMAIN req.header \cup
                {NormalizeHeaderKey(mapHeader[i].key) : i \in DOMAIN mapHeader} |->
            IF k \in DOMAIN req.header THEN req.header[k]
            ELSE (CHOOSE p \in {mapHeader[i] : i \in DOMAIN mapHeader} :
                      NormalizeHeaderKey(p.key) = k).val]]

\* mapHeader and mapCookie are given in the order range visits them.
RECURSIVE setFasthttpReqHeaderByMap(_, _)
setFasthttpReqHeaderByMap(req, mapHeader) ==
    IF mapHeader = <<>> THEN req
    ELSE setFasthttpReqHeaderByMap(
             [req EXCEPT !.header = RequestHeaderSet(req.header,
                                        Head(mapHeader).key, Head(mapHeader).val)],
             Tail(mapHeader))

RECURSIVE setFasthttpReqCookiesByMap(_, _)
setFasthttpReqCookiesByMap(req, mapCookie) ==
    IF mapCookie = <<>> THEN req
    ELSE setFasthttpReqCookiesByMap(
             [req EXCEPT !.cookies =
                 [k \in DOMAIN req.cookies \cup {Head(mapCookie).key} |->
                     IF k = Head(mapCookie).key THEN Head(mapCookie).val
                     ELSE req.cookies[k]]],
             Tail(mapCookie))

\* A variant that goes on after a serialization error.
BuildRequestUnchecked(sp, span, url, method, jsonData, mapHeader, mapCookie, fails) ==
    LET inj == Inject2FasthttpHeader(sp, span, EmptyRequest.header, fails)
        r0 == [EmptyRequest EXCEPT !.header = inj.header]
        r2 == [r0 EXCEPT !.uri = url, !.method = method]
    IN  IF inj.err # NoErr THEN [req |-> r0, err |-> inj.err, at |-> "inject"]
        ELSE [req |-> setFasthttpReqCookiesByMap(
                          setFasthttpReqHeaderByMap(r2, mapHeader), mapCookie),
              err |-> NoErr, at |-> ""]

\* A variant that sets the JSON content type after the caller's headers.
BuildRequestDefaultsLast(sp, span, url, method, jsonData, mapHeader, mapCookie, fails) ==
    LET inj == Inject2FasthttpHeader(sp, span, EmptyRequest.header, fails)
        r0 == [EmptyRequest EXCEPT !.header = inj.header]
        b == IF jsonData # NilData THEN setFasthttpReqBodyByJsonData(r0, jsonData)
             ELSE [req |-> r0, err |-> NoErr]
        r1 == setFasthttpReqCookiesByMap(
                  setFasthttpReqHeaderByMap(
                      [b.req EXCEPT !.uri = url, !.method = method], mapHeader),
                  mapCookie)
    IN  IF inj.err # NoErr THEN [req |-> r0, err |-> inj.err, at |-> "inject"]
        ELSE IF b.err # NoErr THEN [req |-> b.req, err |-> b.err, at |-> "body"]
             ELSE [req |-> IF jsonData = NilData THEN r1
                           ELSE [r1 EXCEPT !.header = RequestHeaderSet(
                                    r1.header, "Content-Type", ApplicationJson)],
                   err |-> NoErr, at |-> ""]

\* fasthttpReq from the injection to the last header set (lines 109-121) on
\* the Request it acquired: the request as built, or the error it returns.
BuildRequest(sp, span, url, method, jsonData, mapHeader, mapCookie, fails) ==
    LET inj == Inject2FasthttpHeader(sp, span, EmptyRequest.header, fails)
        r0 == [EmptyRequest EXCEPT !.header = inj.header]
        b == IF jsonData # NilData THEN setFasthttpReqBodyByJsonData(r0, jsonData)
             ELSE [req |-> r0, err |-> NoErr]
        r1 == IF jsonData # NilData
              THEN [b.req EXCEPT !.header =
                       RequestHeaderSet(b.req.header, "Content-Type", ApplicationJson)]
              ELSE b.req
        r2 == [r1 EXCEPT !.uri = url, !.method = method]
    IN  IF inj.err # NoErr THEN [req |-> r0, err |-> inj.err, at |-> "inject"]
        ELSE IF b.err # NoErr THEN [req |-> b.req, err |-> b.err, at |-> "body"]
             ELSE [req |-> setFasthttpReqCookiesByMap(
                               setFasthttpReqHeaderByMap(r2, mapHeader), mapCookie),
                   err |-> NoErr, at |-> ""]

\* ----------------------------------------------------------- the endpoint
TraceKey == NormalizeHeaderKey(OtMwTraceContextHeaderName)
ContentTypeHeader == Pair("Content-Type", TextPlain)

\* What the endpoint answers to req, by kind, as ResponseHeader.VisitAll
\* lists it: "echo" returns the trace header it received, "remote" its own
\* identity, "garbage" a malformed trace header, "plain" none.
ServerHeader(kind, req) ==
    CASE kind = "echo" ->
            IF TraceKey \in DOMAIN req.header
            THEN <<ContentTypeHeader, Pair(TraceKey, req.header[TraceKey])>>
            ELSE <<ContentTypeHeader>>
      [] kind = "remote" ->
            <<ContentTypeHeader, TraceHeader(SpanContextString(RemoteSC))>>
      [] kind = "garbage" -> <<ContentTypeHeader, TraceHeader(Garbage), OtherHeader>>
      [] OTHER -> <<ContentTypeHeader>>

ServerKinds == {"echo", "remote", "garbage", "plain"}

\* The body the endpoint writes: the request's body if it has one.
ResponseBody(req) == IF req.body = <<>> THEN BodyBytes ELSE req.body

\* A variant that returns resp.Body() itself.
getFasthttpRespBodyShared(objs, resp) == BodyOf(resp)

\* getFasthttpRespBody: a new slice holding a copy of resp.Body().
getFasthttpRespBody(objs, resp) == Body(Contents(objs, BodyOf(resp)))

\* ------------------------------------------------------ pipeline state
\* One activation of fasthttpReq: where it is (pc), its arguments (ctx,
\* jsonData, mapHeader, the number of callbacks), whether the tracer rejects
\* the injection, its locals, the deferred calls still to run (first to run
\* first), its named results, whether a callback panicked, what the endpoint
\* did (served), the request as it went out (sent) and the calls it has made
\* so far (log).
IdleCall ==
    [pc |-> "idle", ctx |-> NilCtx, jsonData |-> NilData, mapHeader |-> <<>>,
     cbs |-> 0, rejects |-> FALSE, span |-> NilSpan,
     req |-> 0, resp |-> 0, defers |-> <<>>, panicking |-> FALSE,
     newCtx |-> NilCtx, respBody |-> NilBody, err |-> NoErr,
     served |-> "", sent |-> EmptyRequest, log |-> <<>>]

Event(ev, n, ctx, obj) == [ev |-> ev, n |-> n, ctx |-> ctx, obj |-> obj]

\* ------------------------------------------------------ URL building
\* Strings are sequences of characters, so that url[:len(url)-1] is a
\* SubSeq. MaxParams bounds the entries of a query-parameter mapping.
MaxParams == 2

\* A nil map[string]string and a map with the entries m.
NilParams == [nil |-> TRUE, m |-> <<>>]
Params(m) == [nil |-> FALSE, m |-> m]

\* len(queryParams); the length of a nil map is 0.
LenParams(q) == Cardinality(DOMAIN q.m)

\* The hosts, paths and query-parameter mappings a caller passes: keys and
\* values drawn from a few strings, some holding '&' or '=', the empty
\* value among them.
UrlInputs ==
    LET keys == {<<"k">>, <<"i", "d">>, <<"a", "&">>}
        values == {<<>>, <<"v">>, <<"1", "=">>}
    IN  [hosts |-> {<<"h">>, <<"h", ":", "8">>},
         paths |-> {<<>>, <<"/", "p">>},
         params |-> {NilParams} \cup
             {Params(m) : m \in UNION {[D -> values] :
                 D \in {E \in SUBSET keys : Cardinality(E) <= MaxParams}}}]

\* The orders in which a range over the mapping can visit its keys.
RangeOrders(q) ==
    {o \in [1..LenParams(q) -> DOMAIN q.m] :
        {o[n] : n \in 1..LenParams(q)} = DOMAIN q.m}

\* The loop of MakeupUrlByHostPathQueryParams: key, '=', value, '&' written
\* for every entry, in the order of the range.
RECURSIVE WriteQueryParams(_, _)
WriteQueryParams(q, order) ==
    IF order = <<>> THEN <<>>
    ELSE Head(order) \o <<"=">> \o q.m[Head(order)] \o <<"&">>
           \o WriteQueryParams(q, Tail(order))

\* A variant that returns the builder's content without dropping the last
\* byte.
MakeupUrlByHostPathQueryParamsWhole(host, path, q, order) == (host \o path \o <<"?">>) \o WriteQueryParams(q, order)

\* MakeupUrlByHostPathQueryParams(host, path, queryParams); order is the
\* order the range over queryParams takes.
MakeupUrlByHostPathQueryParams(host, path, q, order) ==
    IF LenParams(q) = 0 THEN host \o path
    ELSE LET url == (host \o path \o <<"?">>) \o WriteQueryParams(q, order)
         IN  SubSeq(url, 1, Len(url) - 1)

\* ---------------------------------------------------------- facade calls
NoLast ==
    [op |-> "", ctx |-> NilCtx, parent |-> NilSpan, header |-> <<>>,
     span |-> NilSpan, opts |-> <<>>, newCtx |-> NilCtx,
     reqHeader |-> NoHeader, out |-> <<>>, reqOut |-> NoHeader, err |-> NoErr,
     sc |-> NilSC,
     url |-> [host |-> <<>>, path |-> <<>>, q |-> NilParams, url |-> <<>>]]

\* Every action takes b: the numbers of spans and of context objects the
\* specification it is used in lets a behaviour allocate, and the headers
\* it passes.
\* A span-deriving call: what it was given and the span it returned.
DeriveCall(b, op, ctx, parent, header, st) ==
    /\ Len(st.spans) <= b.spans
    /\ spans' = st.spans
    /\ last' = [NoLast EXCEPT !.op = op, !.ctx = ctx, !.parent = parent,
                              !.header = header, !.span = st.span,
                              !.opts = st.opts]
    /\ UNCHANGED <<tracer, ctxs>>
    /\ UNCHANGED pipeVars
    /\ UNCHANGED mw

\* A context-deriving call: what it was given and the context it returned.
ContextCall(b, op, ctx, parent, header, d) ==
    /\ Len(d.ctxs) <= b.ctxs
    /\ ctxs' = d.ctxs
    /\ last' = [NoLast EXCEPT !.op = op, !.ctx = ctx, !.parent = parent,
                              !.header = header, !.newCtx = d.ctx]
    /\ UNCHANGED <<tracer, spans>>
    /\ UNCHANGED pipeVars
    /\ UNCHANGED mw

StartSpan(b) ==
    DeriveCall(b, "StartSpan", NilCtx, NilSpan, <<>>, tiStartSpan(spans, "op"))

ChildSpanFromContextCall(b) ==
    \E ctx \in CtxInputs :
        DeriveCall(b, "ChildSpanFromContext", ctx, NilSpan, <<>>,
                   ChildSpanFromContext(spans, ctxs, "op", ctx))

FollowerSpanFromContextCall(b) ==
    \E ctx \in CtxInputs :
        DeriveCall(b, "FollowerSpanFromContext", ctx, NilSpan, <<>>,
                   FollowerSpanFromContext(spans, ctxs, "op", ctx))

ChildSpanFromParentCall(b) ==
    \E parent \in SpanInputs :
        DeriveCall(b, "ChildSpanFromParent", NilCtx, parent, <<>>,
                   ChildSpanFromParent(spans, "op", parent))

FollowerSpanFromParentCall(b) ==
    \E parent \in SpanInputs :
        DeriveCall(b, "FollowerSpanFromParent", NilCtx, parent, <<>>,
                   FollowerSpanFromParent(spans, "op", parent))

ChildSpanFromHttpHeader(b) ==
    \E header \in b.headers :
        DeriveCall(b, "ChildSpanFromHttpHeader", NilCtx, NilSpan, header,
                   getSpanFromHttpHeader(spans, "op", header, ChildOfRef))

FollowerSpanFromHttpHeader(b) ==
    \E header \in b.headers :
        DeriveCall(b, "FollowerSpanFromHttpHeader", NilCtx, NilSpan, header,
                   getSpanFromHttpHeader(spans, "op", header, FollowsFromRef))

ChildSpanFromFasthttpHeader(b) ==
    \E header \in b.headers :
        DeriveCall(b, "ChildSpanFromFasthttpHeader", NilCtx, NilSpan, header,
                   getSpanFromFasthttpHeader(spans, "op", header, ChildOfRef))

FollowerSpanFromFasthttpHeader(b) ==
    \E header \in b.headers :
        DeriveCall(b, "FollowerSpanFromFasthttpHeader", NilCtx, NilSpan, header,
                   getSpanFromFasthttpHeader(spans, "op", header, FollowsFromRef))

ContextWithSpanCall(b) ==
    \E ctx \in CtxInputs, span \in SpanInputs :
        ContextCall(b, "ContextWithSpan", ctx, span, <<>>,
                    ContextWithSpan(ctxs, ctx, span))

CtxWithSpanCtxFromHttpHeaderCall(b) ==
    \E ctx \in CtxInputs, header \in b.headers :
        ContextCall(b, "CtxWithSpanCtxFromHttpHeader", ctx, NilSpan, header,
                    CtxWithSpanCtxFromHttpHeader(ctxs, ctx, header))

CtxWithSpanCtxFromFasthttpHeaderCall(b) ==
    \E ctx \in CtxInputs, header \in b.headers :
        ContextCall(b, "CtxWithSpanCtxFromFasthttpHeader", ctx, NilSpan, header,
                    CtxWithSpanCtxFromFasthttpHeader(ctxs, ctx, header))

\* The fasthttp.RequestHeader values a caller injects into.
RequestHeaderInputs ==
    {NoHeader, RequestHeaderSet(NoHeader, "content-type", TextPlain)}

\* Whether the tracer rejects an Inject call: the no-op tracer never does.
InjectFails == IF tracer = "jaeger" THEN BOOLEAN ELSE {FALSE}

\* An inject call: what it was given, the header after it, and its error.
InjectCall(op, ctx, span, header, reqHeader, out, reqOut, err) ==
    /\ last' = [NoLast EXCEPT !.op = op, !.ctx = ctx, !.parent = span,
                              !.header = header, !.reqHeader = reqHeader,
                              !.out = out, !.reqOut = reqOut, !.err = err]
    /\ UNCHANGED <<tracer, spans, ctxs, mw>>
    /\ UNCHANGED pipeVars

Inject2HttpHeaderCall(b) ==
    \E span \in SpanInputs, header \in b.headers, fails \in InjectFails :
        LET r == Inject2HttpHeader(spans, span, header, fails)
        IN  InjectCall("Inject2HttpHeader", NilCtx, span, header, NoHeader,
                       r.header, NoHeader, r.err)

Inject2FasthttpHeaderCall(b) ==
    \E span \in SpanInputs, header \in RequestHeaderInputs, fails \in InjectFails :
        LET r == Inject2FasthttpHeader(spans, span, header, fails)
        IN  InjectCall("Inject2FasthttpHeader", NilCtx, span, <<>>, header,
                       <<>>, r.header, r.err)

Inject2HttpHeaderByCtxCall(b) ==
    \E ctx \in CtxInputs, header \in b.headers, fails \in InjectFails :
        LET r == Inject2HttpHeaderByCtx(spans, ctxs, ctx, header, fails)
        IN  InjectCall("Inject2HttpHeaderByCtx", ctx, NilSpan, header, NoHeader,
                       r.header, NoHeader, r.err)

Inject2FasthttpHeaderByCtxCall(b) ==
    \E ctx \in CtxInputs, header \in RequestHeaderInputs, fails \in InjectFails :
        LET r == Inject2FasthttpHeaderByCtx(spans, ctxs, ctx, header, fails)
        IN  InjectCall("Inject2FasthttpHeaderByCtx", ctx, NilSpan, <<>>, header,
                       <<>>, r.header, r.err)

\* A call of MakeupUrlByHostPathQueryParams.
MakeupUrlCall ==
    /\ \E host \in UrlInputs.hosts, path \in UrlInputs.paths,
            q \in UrlInputs.params :
         \E order \in RangeOrders(q) :
            last' = [NoLast EXCEPT
                        !.op = "MakeupUrlByHostPathQueryParams",
                        !.url = [host |-> host, path |-> path, q |-> q,
                                 url |-> MakeupUrlByHostPathQueryParams(
                                             host, path, q, order)]]
    /\ UNCHANGED <<tracer, spans, ctxs, mw>>
    /\ UNCHANGED pipeVars

\* The baggage items a caller sets on a span.
BaggageInputs == {Pair(k, OtherValue) : k \in BaggageKeys}

\* span.SetBaggageItem(key, val) on a span a facade call returned: the
\* jaeger span stores the item under the key as given, replacing the item
\* of that key; noopSpan.SetBaggageItem does nothing.
SpanSetBaggageItem ==
    /\ \E span \in SpanInputs \ {NilSpan}, item \in BaggageInputs :
        spans' = IF span = NoopSpanH THEN spans
                 ELSE [spans EXCEPT ![span].ctx.baggage =
                          {i \in @ : i.key # item.key} \cup {item}]
    /\ last' = NoLast
    /\ UNCHANGED <<tracer, ctxs, mw>>
    /\ UNCHANGED pipeVars

\* A span's identity injected into an empty http.Header and extracted from
\* that header.
InjectExtractHttpHeader ==
    \E span \in SpanInputs \ {NilSpan} :
        LET inj == Inject2HttpHeader(spans, span, <<>>, FALSE)
            ext == extractFromHttpHeader(inj.header)
        IN  /\ last' = [NoLast EXCEPT !.op = "InjectExtractHttpHeader",
                                      !.parent = span, !.out = inj.header,
                                      !.sc = ext.spanCtx, !.err = ext.err]
            /\ UNCHANGED <<tracer, spans, ctxs, mw>>
            /\ UNCHANGED pipeVars

\* A span's identity injected into an empty fasthttp.RequestHeader and
\* extracted from a fasthttp.ResponseHeader carrying the same pairs.
InjectExtractFasthttpHeader ==
    \E span \in SpanInputs \ {NilSpan} :
        LET inj == Inject2FasthttpHeader(spans, span, NoHeader, FALSE)
            keys == SeqOf(DOMAIN inj.header)
            echoed == [n \in 1..Len(keys) |-> Pair(keys[n], inj.header[keys[n]])]
            ext == extractFromFasthttpHeader(echoed)
        IN  /\ last' = [NoLast EXCEPT !.op = "InjectExtractFasthttpHeader",
                                      !.parent = span, !.reqOut = inj.header,
                                      !.out = echoed,
                                      !.sc = ext.spanCtx, !.err = ext.err]
            /\ UNCHANGED <<tracer, spans, ctxs, mw>>
            /\ UNCHANGED pipeVars

\* ------------------------------------------------------ pipeline steps
url == "http://localhost:8082/pong"

\* A variant that finishes the span at the end of the function, not deferred.
DefersOnEntryFinishAtEnd(err) ==
    IF err = NoErr THEN <<"ReleaseRequest", "Finish">> ELSE <<"ReleaseRequest">>

\* The calls fasthttpReq has deferred when it leaves lines 104-121 with err:
\* ReleaseRequest runs first, then childSpan.Finish.
DefersOnEntry(err) == <<"ReleaseRequest", "Finish">>

\* A variant whose second defer releases the request again.
DefersOnResponseReleasesRequest(defers) == <<"ReleaseRequest">> \o defers

\* defer fasthttp.ReleaseResponse(resp), which runs before the others.
DefersOnResponse(defers) == <<"ReleaseResponse">> \o defers

\* fasthttpReq, lines 104-121: derive the child span, acquire a Request,
\* inject, set body, URI, method, headers and cookies. On an injection or
\* serialization error the function returns, with two calls deferred.
fasthttpReq(g, ctx, method, jsonData, mapHeader, mapCookie, cbs) ==
    /\ calls[g].pc = "idle"
    /\ \E fails \in (IF tracer = "jaeger" THEN BOOLEAN ELSE {FALSE}),
          obj \in AcquireChoices(requestPool, reqObjs) :
        LET st == ChildSpanFromContext(spans, ctxs, url, ctx)
            a == AcquireRequest(requestPool, reqObjs, obj)
            br == BuildRequest(st.spans, st.span, url, method, jsonData,
                               mapHeader, mapCookie, fails)
            made == <<Event("ChildSpanFromContext", st.span, ctx, 0),
                      Event("AcquireRequest", 0, NilCtx, obj),
                      Event("Inject2FasthttpHeader", st.span, NilCtx, obj)>>
        IN  /\ spans' = st.spans
            /\ requestPool' = a.pool
            /\ reqObjs' = [a.objs EXCEPT ![obj] = br.req]
            /\ calls' = [calls EXCEPT ![g] =
                  [IdleCall EXCEPT
                      !.pc = IF br.err = NoErr THEN "send" ELSE "deferred",
                      !.ctx = ctx, !.jsonData = jsonData,
                      !.mapHeader = mapHeader, !.cbs = cbs, !.rejects = fails,
                      !.span = st.span, !.req = obj,
                      !.defers = DefersOnEntry(br.err),
                      !.err = br.err,
                      !.log = IF br.at = "body"
                              THEN Append(made, Event("Marshal", 0, NilCtx, obj))
                              ELSE made]]
    /\ UNCHANGED <<mw, tracer, ctxs, last, responsePool, respObjs>>

\* The four entry points, with arguments drawn from in.
GetFasthttp(in, g) ==
    \E ctx \in in.ctxs, a \in in.get, cbs \in in.cbs :
        fasthttpReq(g, ctx, "GET", NilData, a.mapHeader, a.mapCookie, cbs)

PostJsonFasthttp(in, g) ==
    \E ctx \in in.ctxs, a \in in.post, cbs \in in.cbs :
        fasthttpReq(g, ctx, "POST", a.data, a.mapHeader, a.mapCookie, cbs)

DeleteJsonFasthttp(in, g) ==
    \E ctx \in in.ctxs, a \in in.delete, cbs \in in.cbs :
        fasthttpReq(g, ctx, "DELETE", a.data, a.mapHeader, a.mapCookie, cbs)

PutJsonFasthttp(in, g) ==
    \E ctx \in in.ctxs, a \in in.put, cbs \in in.cbs :
        fasthttpReq(g, ctx, "PUT", a.data, a.mapHeader, a.mapCookie, cbs)

\* Lines 123-127: acquire a Response and send with the timeout. The
\* transport fails or times out, or the endpoint answers.
sendFasthttpReqWithTimeOut(in, g) ==
    /\ calls[g].pc = "send"
    /\ \E obj \in AcquireChoices(responsePool, respObjs),
          outcome \in in.outcomes :
        LET a == AcquireResponse(responsePool, respObjs, obj)
            req == reqObjs[calls[g].req]
            ok == outcome \in ServerKinds
            made == calls[g].log \o
                      <<Event("AcquireResponse", 0, NilCtx, obj),
                        Event("Send", 0, NilCtx, calls[g].req)>>
        IN  /\ responsePool' = a.pool
            /\ respObjs' =
                  IF ok THEN [a.objs EXCEPT ![obj] =
                                 [header |-> ServerHeader(outcome, req),
                                  body |-> ResponseBody(req)]]
                  ELSE a.objs
            /\ calls' = [calls EXCEPT ![g] =
                  [@ EXCEPT !.pc = IF ok THEN "respond" ELSE "deferred",
                            !.resp = obj,
                            !.defers = DefersOnResponse(@),
                            !.err = IF ok THEN NoErr ELSE outcome,
                            !.served = IF ok THEN outcome ELSE "",
                            !.sent = req,
                            !.log = made]]
    /\ UNCHANGED <<mw, tracer, spans, ctxs, last, requestPool, reqObjs>>

\* A variant that runs the callbacks last to first.
RECURSIVE applyFasthttpRespCallbackReversed(_, _, _, _, _)
applyFasthttpRespCallbackReversed(ctx, resp, cbs, panicAt, n) ==
    IF n > cbs \/ (panicAt # 0 /\ n > panicAt) THEN <<>>
    ELSE applyFasthttpRespCallbackReversed(ctx, resp, cbs, panicAt, n + 1)
            \o <<Event("Callback", n, ctx, resp)>>

\* applyFasthttpRespCallback: the callbacks in the order passed, stopping
\* at one that panics (panicAt, 0 for none); the events it makes.
RECURSIVE applyFasthttpRespCallback(_, _, _, _, _)
applyFasthttpRespCallback(ctx, resp, cbs, panicAt, n) ==
    IF n > cbs \/ (panicAt # 0 /\ n > panicAt) THEN <<>>
    ELSE <<Event("Callback", n, ctx, resp)>>
            \o applyFasthttpRespCallback(ctx, resp, cbs, panicAt, n + 1)

\* Lines 128-132: fold the response's span context into a new context, run
\* the callbacks, copy the body. A panicking callback unwinds the function.
Respond(in, g) ==
    /\ calls[g].pc = "respond"
    /\ \E panicAt \in {0} \cup (in.panics \cap 1..calls[g].cbs) :
        LET c == calls[g]
            d == CtxWithSpanCtxFromFasthttpHeader(ctxs, c.ctx,
                                                  respObjs[c.resp].header)
            cbEvents == applyFasthttpRespCallback(d.ctx, c.resp, c.cbs, panicAt, 1)
            made == (c.log \o <<Event("Extract", 0, d.ctx, c.resp)>>) \o cbEvents
        IN  /\ ctxs' = d.ctxs
            /\ calls' = [calls EXCEPT ![g] =
                  IF panicAt # 0
                  THEN [c EXCEPT !.pc = "deferred", !.panicking = TRUE,
                                 !.newCtx = d.ctx, !.log = made]
                  ELSE [c EXCEPT !.pc = "deferred", !.newCtx = d.ctx,
                                 !.respBody = getFasthttpRespBody(respObjs, c.resp),
                                 !.log = Append(made,
                                            Event("Copy", 0, NilCtx, c.resp))]]
    /\ UNCHANGED <<mw, tracer, spans, last, requestPool, responsePool,
                   reqObjs, respObjs>>

\* What a call becomes once a deferred call has run: it returns to its
\* caller after the last one (a panic keeps unwinding, and the named
\* results never reach the caller).
AfterDeferred(c, ev) ==
    [c EXCEPT !.defers = Tail(c.defers),
              !.log = Append(c.log, ev),
              !.pc = IF Tail(c.defers) # <<>> THEN "deferred"
                     ELSE IF c.panicking THEN "panicked" ELSE "done"]

\* defer fasthttp.ReleaseResponse(resp)
DeferredReleaseResponse(g) ==
    /\ calls[g].pc = "deferred"
    /\ calls[g].defers # <<>>
    /\ Head(calls[g].defers) = "ReleaseResponse"
    /\ LET r == ReleaseResponse(responsePool, respObjs, calls[g].resp)
       IN  /\ responsePool' = r.pool
           /\ respObjs' = r.objs
    /\ calls' = [calls EXCEPT ![g] =
          AfterDeferred(@, Event("ReleaseResponse", 0, NilCtx, calls[g].resp))]
    /\ UNCHANGED <<mw, tracer, spans, ctxs, last, requestPool, reqObjs>>

\* defer fasthttp.ReleaseRequest(req)
DeferredReleaseRequest(g) ==
    /\ calls[g].pc = "deferred"
    /\ calls[g].defers # <<>>
    /\ Head(calls[g].defers) = "ReleaseRequest"
    /\ LET r == ReleaseRequest(requestPool, reqObjs, calls[g].req)
       IN  /\ requestPool' = r.pool
           /\ reqObjs' = r.objs
    /\ calls' = [calls EXCEPT ![g] =
          AfterDeferred(@, Event("ReleaseRequest", 0, NilCtx, calls[g].req))]
    /\ UNCHANGED <<mw, tracer, spans, ctxs, last, responsePool, respObjs>>

\* defer childSpan.Finish()
DeferredFinish(g) ==
    /\ calls[g].pc = "deferred"
    /\ calls[g].defers # <<>>
    /\ Head(calls[g].defers) = "Finish"
    /\ spans' = SpanFinish(spans, calls[g].span)
    /\ calls' = [calls EXCEPT ![g] =
          AfterDeferred(@, Event("Finish", calls[g].span, NilCtx, 0))]
    /\ UNCHANGED <<mw, tracer, ctxs, last, requestPool, responsePool,
                   reqObjs, respObjs>>

\* ------------------------------------------------------- HTTP middleware
\* The inbound request being served: the handler HttpMiddleWare returned,
\* the request line and header, the span and context the wrapper made, the
\* statusCodeTracker (if installed) and its statusCode field, the codes the
\* handler passed to WriteHeader, whether it wrote a body, the status the
\* underlying ResponseWriter sent (its first, or 200 by default), the span
\* the handler derived from the request's context (child) and the calls
\* made so far, in order (log).
IdleServe ==
    [pc |-> "idle", handler |-> [name |-> "", traced |-> FALSE],
     method |-> "", path |-> "", header |-> <<>>,
     span |-> NilSpan, ctx |-> NilCtx, tracker |-> FALSE, statusCode |-> 0,
     written |-> <<>>, body |-> FALSE, sent |-> 0,
     child |-> NilSpan, log |-> <<>>]

\* The application's handler.
AppHandler == [name |-> "app", traced |-> FALSE]

\* A variant that wraps the handler whatever the tracer is.
HttpMiddleWareAlwaysWraps(handler) == [handler EXCEPT !.traced = TRUE]

\* HttpMiddleWare(handler): the handler itself for noopTracerImpl, else a
\* handler that traces the request around a call of it.
HttpMiddleWare(handler) ==
    IF tracer = "noop" THEN handler ELSE [handler EXCEPT !.traced = TRUE]

\* A variant that writes the method, a space and the path only.
getOperationNameMethodPath(method, path) == (method \o " ") \o path

\* getOperationNameFromHttpRequest
getOperationNameFromHttpRequest(method, path) ==
    (("HTTP " \o method) \o " ") \o path

\* statusCodeTracker.WriteHeader: the tracker's statusCode after the call.
statusCodeTrackerWriteHeader(current, statusCode) == statusCode

\* A variant whose Write records the implicit 200.
statusCodeTrackerWriteImplicit(current) == IF current = 0 THEN 200 ELSE current

\* statusCodeTracker.Write: the embedded ResponseWriter's Write, promoted;
\* the tracker's statusCode is left as it was.
statusCodeTrackerWrite(current) == current

\* A variant whose wrapper finishes the span in a deferred call.
HandlerPanicUnwindsFinishing(sp, h) == SpanFinish(sp, h)

\* A panic in handler.ServeHTTP unwinds the wrapper, which has deferred
\* nothing: LogFields and Finish are not reached and the spans stay as
\* they were.
HandlerPanicUnwinds(sp, h) == sp

\* http.ResponseWriter: the status sent is the first one written.
ResponseWriterStatus(sent, statusCode) == IF sent = 0 THEN statusCode ELSE sent

\* child.LogFields(fields...): noopSpan.LogFields does nothing.
SpanLogFields(sp, h, fields) ==
    IF h = NoopSpanH THEN sp
    ELSE [sp EXCEPT ![h].logs = Append(sp[h].logs, fields)]

MwInputs ==
    [methods |-> {"GET", "POST"}, paths |-> {"/", "/ping"},
     headers |-> HeaderInputs, codes |-> {200, 404, 500}]

\* A request arrives at the handler HttpMiddleWare returned. The wrapper
\* (lines 501-507) derives a child span from the header, stores it in the
\* request's context and installs the tracker, then calls the handler.
ServeHTTP(in) ==
    /\ mw.pc = "idle"
    /\ \E method \in in.methods, path \in in.paths, header \in in.headers :
        LET h == HttpMiddleWare(AppHandler)
            st == getSpanFromHttpHeader(spans,
                      getOperationNameFromHttpRequest(method, path),
                      header, ChildOfRef)
            d == ContextWithSpan(ctxs, Background, st.span)
            r == [mw EXCEPT !.pc = "handler", !.handler = h,
                            !.method = method, !.path = path,
                            !.header = header, !.ctx = Background]
        IN  IF h.traced
            THEN /\ spans' = st.spans
                 /\ ctxs' = d.ctxs
                 /\ mw' = [r EXCEPT !.span = st.span, !.ctx = d.ctx,
                                    !.tracker = TRUE,
                                    !.log = <<"ChildSpanFromHttpHeader",
                                              "ContextWithSpan", "ServeHTTP">>]
            ELSE /\ mw' = [r EXCEPT !.log = <<"ServeHTTP">>]
                 /\ UNCHANGED <<spans, ctxs>>
    /\ UNCHANGED <<tracer, last>>
    /\ UNCHANGED pipeVars

\* The handler calls w.WriteHeader(statusCode).
HandlerWriteHeader(in) ==
    /\ mw.pc = "handler"
    /\ Len(mw.written) < MaxWrites
    /\ \E statusCode \in in.codes :
        mw' = [mw EXCEPT
                  !.written = Append(@, statusCode),
                  !.statusCode =
                      IF mw.tracker
                      THEN statusCodeTrackerWriteHeader(@, statusCode)
                      ELSE @,
                  !.sent = ResponseWriterStatus(@, statusCode)]
    /\ UNCHANGED facadeVars
    /\ UNCHANGED pipeVars

\* The handler calls w.Write, which the tracker does not intercept.
HandlerWrite ==
    /\ mw.pc = "handler"
    /\ ~mw.body
    /\ mw' = [mw EXCEPT !.body = TRUE,
                        !.statusCode = IF mw.tracker
                                       THEN statusCodeTrackerWrite(@) ELSE @,
                        !.sent = ResponseWriterStatus(@, 200)]
    /\ UNCHANGED facadeVars
    /\ UNCHANGED pipeVars

\* The handler derives a span from the context of the request it was given
\* and finishes it before it returns, as otherService does.
HandlerChildSpanFromContext ==
    /\ mw.pc = "handler"
    /\ mw.child = NilSpan
    /\ LET st == ChildSpanFromContext(spans, ctxs, "otherService", mw.ctx)
       IN  /\ spans' = SpanFinish(st.spans, st.span)
           /\ mw' = [mw EXCEPT !.child = st.span,
                               !.log = Append(@, "ChildSpanFromContext")]
    /\ UNCHANGED <<tracer, ctxs, last>>
    /\ UNCHANGED pipeVars

\* The handler panics: the wrapper is unwound and the server recovers.
HandlerPanic ==
    /\ mw.pc = "handler"
    /\ mw' = [mw EXCEPT !.pc = "panicked", !.log = Append(@, "panic")]
    /\ spans' = IF mw.handler.traced THEN HandlerPanicUnwinds(spans, mw.span)
                ELSE spans
    /\ UNCHANGED <<tracer, ctxs, last>>
    /\ UNCHANGED pipeVars

\* The handler returns. The wrapper (lines 510-514) logs the component and
\* the tracker's status code on the span and finishes it.
HandlerReturn ==
    /\ mw.pc = "handler"
    /\ mw' = [mw EXCEPT !.pc = "done", !.sent = ResponseWriterStatus(@, 200),
                        !.log = IF mw.handler.traced
                                THEN @ \o <<"return", "LogFields", "Finish">>
                                ELSE Append(@, "return")]
    /\ spans' =
          IF mw.handler.traced
          THEN SpanFinish(
                   SpanLogFields(spans, mw.span,
                       [component |-> "ot-mw-tracer",
                        status |-> mw.statusCode]),
                   mw.span)
          ELSE spans
    /\ UNCHANGED <<tracer, ctxs, last>>
    /\ UNCHANGED pipeVars

\* ------------------------------------------------------------------ Init
Goroutines == {"g1", "g2"}

Init ==
    /\ tracer \in {"jaeger", "noop"}
    /\ spans = <<>>
    /\ ctxs = <<backgroundCtx>>
    /\ last = NoLast
    /\ calls = [g \in Goroutines |-> IdleCall]
    /\ requestPool = {}
    /\ responsePool = {}
    /\ reqObjs = <<>>
    /\ respObjs = <<>>
    /\ mw = IdleServe

SpecBounds ==
    [spans |-> MaxSpans, ctxs |-> Background + MaxSpanCtxs,
     headers |-> HeaderInputs]
CtxBounds ==
    [spans |-> MaxCtxSpans, ctxs |-> Background + MaxCtxs,
     headers |-> HeaderInputs]

Next ==
    \/ StartSpan(SpecBounds)
    \/ ChildSpanFromContextCall(SpecBounds)
    \/ FollowerSpanFromContextCall(SpecBounds)
    \/ ChildSpanFromParentCall(SpecBounds)
    \/ FollowerSpanFromParentCall(SpecBounds)
    \/ ChildSpanFromHttpHeader(SpecBounds)
    \/ FollowerSpanFromHttpHeader(SpecBounds)
    \/ ChildSpanFromFasthttpHeader(SpecBounds)
    \/ FollowerSpanFromFasthttpHeader(SpecBounds)
    \/ ContextWithSpanCall(SpecBounds)
    \/ CtxWithSpanCtxFromHttpHeaderCall(SpecBounds)
    \/ CtxWithSpanCtxFromFasthttpHeaderCall(SpecBounds)

\* Span derivation through the facade, from contexts, parents and headers.
Spec == Init /\ [][Next]_vars

NextCtx ==
    \/ StartSpan(CtxBounds)
    \/ ContextWithSpanCall(CtxBounds)
    \/ CtxWithSpanCtxFromHttpHeaderCall(CtxBounds)
    \/ CtxWithSpanCtxFromFasthttpHeaderCall(CtxBounds)

\* Chains of context derivations.
SpecCtx == Init /\ [][NextCtx]_vars

NextMw ==
    \/ ServeHTTP(MwInputs)
    \/ HandlerWriteHeader(MwInputs)
    \/ HandlerWrite
    \/ HandlerChildSpanFromContext
    \/ HandlerPanic
    \/ HandlerReturn

\* One inbound request through the handler HttpMiddleWare returned.
SpecMw == Init /\ [][NextMw]_vars

\* ------------------------------------------------- pipeline specifications
Args(data, mapHeader, mapCookie) ==
    [data |-> data, mapHeader |-> mapHeader, mapCookie |-> mapCookie]
OwnContentType == <<Pair("content-type", TextPlain)>>
OwnTraceId == <<Pair("ot-mw-trace-id", SpanContextString(ForeignSC))>>
Cookie == <<Pair("sid", OtherValue)>>

\* The state the pipeline is called in: the inbound side has started a span,
\* stored it in a context, and stored an extracted identity in another.
InitPipe ==
    /\ tracer \in {"jaeger", "noop"}
    /\ LET s == tiStartSpan(<<>>, "op")
           c == ContextWithSpan(<<backgroundCtx>>, Background, s.span)
           d == CtxWithSpanCtxFromHttpHeader(c.ctxs, Background,
                    <<TraceHeader(SpanContextString(RemoteSC))>>)
       IN  /\ spans = s.spans
           /\ ctxs = d.ctxs
    /\ last = NoLast
    /\ calls = [g \in Goroutines |-> IdleCall]
    /\ requestPool = {}
    /\ responsePool = {}
    /\ reqObjs = <<>>
    /\ respObjs = <<>>
    /\ mw = IdleServe

PipeInputs ==
    [ctxs |-> {NilCtx} \cup DOMAIN ctxs,
     get |-> {Args(NilData, <<>>, <<>>), Args(NilData, OwnTraceId, <<>>)},
     post |-> {Args(GoodData, <<>>, <<>>), Args(BadData, <<>>, <<>>),
               Args(GoodData, OwnContentType, Cookie)},
     put |-> {Args(NilData, <<>>, Cookie), Args(GoodData, OwnTraceId, <<>>)},
     delete |-> {Args(BadData, OwnContentType, <<>>), Args(GoodData, <<>>, <<>>)},
     cbs |-> 0..MaxCbs,
     outcomes |-> {ErrTransport, ErrTimeout} \cup ServerKinds,
     panics |-> 1..MaxCbs]

NextPipe ==
    \/ GetFasthttp(PipeInputs, "g1")
    \/ PostJsonFasthttp(PipeInputs, "g1")
    \/ DeleteJsonFasthttp(PipeInputs, "g1")
    \/ PutJsonFasthttp(PipeInputs, "g1")
    \/ sendFasthttpReqWithTimeOut(PipeInputs, "g1")
    \/ Respond(PipeInputs, "g1")
    \/ DeferredReleaseResponse("g1")
    \/ DeferredReleaseRequest("g1")
    \/ DeferredFinish("g1")

\* One goroutine calling the pipeline, with every kind of argument.
SpecPipe == InitPipe /\ [][NextPipe]_vars

ConcInputs ==
    [ctxs |-> {Background},
     get |-> {Args(NilData, <<>>, <<>>)},
     post |-> {Args(GoodData, <<>>, <<>>), Args(BadData, <<>>, <<>>)},
     put |-> {}, delete |-> {},
     cbs |-> {1},
     outcomes |-> {ErrTimeout, "echo"},
     panics |-> {}]

NextConc ==
    \E g \in Goroutines :
        \/ GetFasthttp(ConcInputs, g)
        \/ PostJsonFasthttp(ConcInputs, g)
        \/ sendFasthttpReqWithTimeOut(ConcInputs, g)
        \/ Respond(ConcInputs, g)
        \/ DeferredReleaseResponse(g)
        \/ DeferredReleaseRequest(g)
        \/ DeferredFinish(g)

\* Goroutines calling the pipeline concurrently.
SpecConc == Init /\ [][NextConc]_vars

InjectBounds ==
    [spans |-> MaxInjectSpans, ctxs |-> Background,
     headers |-> HeaderInputs]

NextInject ==
    \/ StartSpan(InjectBounds)
    \/ ChildSpanFromContextCall(InjectBounds)
    \/ FollowerSpanFromContextCall(InjectBounds)
    \/ ChildSpanFromParentCall(InjectBounds)
    \/ FollowerSpanFromParentCall(InjectBounds)
    \/ ChildSpanFromHttpHeader(InjectBounds)
    \/ FollowerSpanFromHttpHeader(InjectBounds)
    \/ ChildSpanFromFasthttpHeader(InjectBounds)
    \/ FollowerSpanFromFasthttpHeader(InjectBounds)
    \/ Inject2HttpHeaderCall(InjectBounds)
    \/ Inject2FasthttpHeaderCall(InjectBounds)
    \/ Inject2HttpHeaderByCtxCall(InjectBounds)
    \/ Inject2FasthttpHeaderByCtxCall(InjectBounds)

\* Spans derived and injected into headers, from the contexts the inbound
\* side prepared.
SpecInject == InitPipe /\ [][NextInject]_vars

\* Calls of the URL builder.
SpecUrl == InitPipe /\ [][MakeupUrlCall]_vars

NextCodec ==
    \/ StartSpan(InjectBounds)
    \/ ChildSpanFromParentCall(InjectBounds)
    \/ FollowerSpanFromHttpHeader(InjectBounds)
    \/ SpanSetBaggageItem
    \/ InjectExtractHttpHeader
    \/ InjectExtractFasthttpHeader

\* Identities with baggage, injected into a carrier and extracted from it.
SpecCodec == Init /\ [][NextCodec]_vars

ReturnInputs ==
    [ctxs |-> {NilCtx} \cup DOMAIN ctxs,
     get |-> {Args(NilData, <<>>, <<>>), Args(NilData, OwnTraceId, <<>>)},
     post |-> {}, put |-> {}, delete |-> {},
     cbs |-> {0, 1},
     outcomes |-> {ErrTimeout} \cup ServerKinds,
     panics |-> {}]

ReturnBounds ==
    [spans |-> MaxInjectSpans + 1, ctxs |-> Background + MaxShareCtxs,
     headers |-> {<<>>}]

NextReturn ==
    \/ ChildSpanFromContextCall(ReturnBounds)
    \/ GetFasthttp(ReturnInputs, "g1")
    \/ sendFasthttpReqWithTimeOut(ReturnInputs, "g1")
    \/ Respond(ReturnInputs, "g1")
    \/ DeferredReleaseResponse("g1")
    \/ DeferredReleaseRequest("g1")
    \/ DeferredFinish("g1")

\* A pipeline call and the spans its caller derives from contexts, the
\* returned one among them.
SpecReturn == InitPipe /\ [][NextReturn]_vars

ShareInputs ==
    [ctxs |-> {NilCtx} \cup DOMAIN ctxs,
     get |-> {Args(NilData, <<>>, <<>>)},
     post |-> {}, put |-> {}, delete |-> {},
     cbs |-> {1},
     outcomes |-> {ErrTimeout, "echo"},
     panics |-> {}]

ShareBounds ==
    [spans |-> MaxCtxSpans, ctxs |-> Background + MaxShareCtxs,
     headers |-> {<<>>, <<TraceHeader(SpanContextString(ForeignSC))>>}]

NextShare ==
    \/ ContextWithSpanCall(ShareBounds)
    \/ CtxWithSpanCtxFromHttpHeaderCall(ShareBounds)
    \/ CtxWithSpanCtxFromFasthttpHeaderCall(ShareBounds)
    \/ GetFasthttp(ShareInputs, "g1")
    \/ sendFasthttpReqWithTimeOut(ShareInputs, "g1")
    \/ Respond(ShareInputs, "g1")
    \/ DeferredReleaseResponse("g1")
    \/ DeferredReleaseRequest("g1")
    \/ DeferredFinish("g1")

\* Context derivations through the facade while a pipeline call runs on
\* another goroutine, from the contexts the inbound side prepared.
SpecShare == InitPipe /\ [][NextShare]_vars

\* ------------------------------------------------------------- properties
Called(c, ev) == {i \in DOMAIN c.log : c.log[i].ev = ev}
Exited(c) == c.pc = "done" \/ c.pc = "panicked"

\* The Finish calls a pipeline call has made on its child span.
Finishes(c) == {i \in Called(c, "Finish") : c.log[i].n = c.span}

\* C1: a pipeline call finishes the child span it started exactly once on
\* every exit path: never more than once while it runs, exactly once when it
\* has exited, and nobody else finishes that span.
C1_SpanFinishedExactlyOnce ==
    \A g \in Goroutines :
        LET c == calls[g]
        IN  c.pc # "idle" =>
              /\ c.span # NilSpan
              /\ Cardinality(Finishes(c)) <= 1
              /\ Exited(c) => Cardinality(Finishes(c)) = 1
              /\ c.span # NoopSpanH =>
                    spans[c.span].finished = Cardinality(Finishes(c))

C1_Witness ==
    \E g \in Goroutines :
        /\ calls[g].pc = "done"
        /\ calls[g].rejects
        /\ calls[g].err = ErrInject
        /\ spans[calls[g].span].finished = 1

\* The pooled objects a call holds: acquired by it and not yet released.
Held(c, acquire, release) ==
    {c.log[i].obj : i \in {i \in Called(c, acquire) :
        \A j \in Called(c, release) : j < i \/ c.log[j].obj # c.log[i].obj}}
HeldRequests(c) == Held(c, "AcquireRequest", "ReleaseRequest")
HeldResponses(c) == Held(c, "AcquireResponse", "ReleaseResponse")

\* Every release a call made is of an object it held at that moment.
ReleasesOwn(c, acquire, release) ==
    \A j \in Called(c, release) :
        /\ \E i \in Called(c, acquire) : i < j /\ c.log[i].obj = c.log[j].obj
        /\ \A k \in Called(c, release) : k # j => c.log[k].obj # c.log[j].obj

\* C2: every pooled Request and Response a pipeline call acquires is
\* released exactly once by that call on every exit path, and under every
\* interleaving no pooled object is held by two calls, or held while free.
C2_PooledObjectsReleasedOnce ==
    /\ \A g \in Goroutines :
          LET c == calls[g]
          IN  /\ ReleasesOwn(c, "AcquireRequest", "ReleaseRequest")
              /\ ReleasesOwn(c, "AcquireResponse", "ReleaseResponse")
              /\ HeldRequests(c) \cap requestPool = {}
              /\ HeldResponses(c) \cap responsePool = {}
              /\ c.pc # "idle" => Cardinality(Called(c, "AcquireRequest")) = 1
              /\ Exited(c) => HeldRequests(c) = {} /\ HeldResponses(c) = {}
    /\ \A g, h \in Goroutines :
          g # h => /\ HeldRequests(calls[g]) \cap HeldRequests(calls[h]) = {}
                   /\ HeldResponses(calls[g]) \cap HeldResponses(calls[h]) = {}

C2_Witness ==
    \E g, h \in Goroutines :
        /\ g # h
        /\ calls[g].pc = "done"
        /\ calls[g].err # NoErr
        /\ calls[g].req \in HeldRequests(calls[h])
        /\ calls[g].resp # 0
        /\ calls[g].resp \in HeldResponses(calls[h])

\* A call whose injection or body serialization fails.
FailsBeforeSend(c) ==
    c.rejects \/ (c.jsonData # NilData /\ Marshal(c.jsonData).err # NoErr)
ErrorBeforeSend(c) == IF c.rejects THEN ErrInject ELSE ErrMarshal

\* C3: when the injection or the serialization of a supplied body fails,
\* the call returns that error and never reaches the send: no Response is
\* acquired, nothing goes out.
C3_NoSendAfterPreSendFailure ==
    \A g \in Goroutines :
        LET c == calls[g]
        IN  c.pc # "idle" /\ FailsBeforeSend(c) =>
              /\ c.err = ErrorBeforeSend(c)
              /\ Called(c, "Send") = {}
              /\ Called(c, "AcquireResponse") = {}
              /\ c.sent = EmptyRequest
              /\ c.pc \in {"deferred", "done"}

C3_Witness ==
    \E g \in Goroutines :
        /\ calls[g].pc = "done"
        /\ calls[g].jsonData = BadData
        /\ ~calls[g].rejects
        /\ calls[g].err = ErrMarshal
        /\ Called(calls[g], "Send") = {}

\* ---- span derivation (Spec)
FromContextOps == {"ChildSpanFromContext", "FollowerSpanFromContext"}
FromParentOps == {"ChildSpanFromParent", "FollowerSpanFromParent"}
FromHttpHeaderOps == {"ChildSpanFromHttpHeader", "FollowerSpanFromHttpHeader"}
FromFasthttpHeaderOps ==
    {"ChildSpanFromFasthttpHeader", "FollowerSpanFromFasthttpHeader"}
ChildOps ==
    {"ChildSpanFromContext", "ChildSpanFromParent", "ChildSpanFromHttpHeader",
     "ChildSpanFromFasthttpHeader"}
DeriveOps ==
    FromContextOps \cup FromParentOps \cup FromHttpHeaderOps
        \cup FromFasthttpHeaderOps

\* The reference type the last call is to record.
LastRefType == IF last.op \in ChildOps THEN ChildOfRef ELSE FollowsFromRef

\* What the slot of the context given to the last call holds.
LastSlot == IF last.ctx = NilCtx THEN NoVal ELSE CtxValue(ctxs, last.ctx)

\* A root span of the jaeger tracer: no reference, no parent, its own trace.
IsRoot(h) ==
    /\ h \in DOMAIN spans
    /\ spans[h].refs = <<>>
    /\ spans[h].ctx.parent = 0
    /\ spans[h].ctx.trace = spans[h].ctx.span

\* C4: Child/FollowerSpanFromContext resolve the parent in priority order:
\* a live Span in the slot gives a span derived from that Span's context,
\* else a SpanContext in the slot gives a span derived from it, else (no
\* value, or a nil context) a root span without parent reference is started.
C4_FromContextPriority ==
    last.op \in FromContextOps =>
        LET want == CASE LastSlot.tag = "span" ->
                            <<[type |-> LastRefType,
                               ctx |-> SpanContextOf(spans, LastSlot.span)]>>
                      [] LastSlot.tag = "spanctx" ->
                            <<[type |-> LastRefType, ctx |-> LastSlot.sc]>>
                      [] OTHER -> <<>>
        IN  /\ last.span # NilSpan
            /\ last.opts = want
            /\ tracer = "jaeger" =>
                  /\ last.span \in DOMAIN spans
                  /\ spans[last.span].refs = want
                  /\ want = <<>> => IsRoot(last.span)

C4_Witness ==
    /\ tracer = "jaeger"
    /\ last.op = "FollowerSpanFromContext"
    /\ LastSlot.tag = "spanctx"
    /\ spans[last.span].refs = <<FollowsFrom(RemoteSC)>>

\* The source of the last derivation carries no upstream identity.
LastHasNoUpstream ==
    \/ last.op \in FromContextOps /\ LastSlot.tag = "none"
    \/ last.op \in FromParentOps /\ last.parent = NilSpan
    \/ last.op \in FromHttpHeaderOps
          /\ extractFromHttpHeader(last.header).spanCtx = NilSC
    \/ last.op \in FromFasthttpHeaderOps
          /\ extractFromFasthttpHeader(last.header).spanCtx = NilSC

\* C5: derivation is total: every derivation returns a span, and from a
\* source without upstream identity (empty or nil context, nil parent, a
\* header extraction finds nothing in) it returns a root span.
C5_DerivationTotal ==
    /\ last.op \in DeriveOps => last.span # NilSpan
    /\ LastHasNoUpstream =>
          /\ last.span # NilSpan
          /\ last.opts = <<>>
          /\ tracer = "jaeger" => IsRoot(last.span)

C5_Witness ==
    /\ tracer = "jaeger"
    /\ last.op = "FollowerSpanFromFasthttpHeader"
    /\ last.header = <<TraceHeader(Garbage), OtherHeader>>
    /\ IsRoot(last.span)

\* The upstream identity the source of the last derivation supplies.
LastUpstream ==
    CASE last.op \in FromContextOps ->
            IF LastSlot.tag = "span" THEN SpanContextOf(spans, LastSlot.span)
            ELSE LastSlot.sc
      [] last.op \in FromParentOps ->
            IF last.parent = NilSpan THEN NilSC
            ELSE SpanContextOf(spans, last.parent)
      [] last.op \in FromHttpHeaderOps ->
            extractFromHttpHeader(last.header).spanCtx
      [] last.op \in FromFasthttpHeaderOps ->
            extractFromFasthttpHeader(last.header).spanCtx
      [] OTHER -> NilSC

\* C6: from a source that supplies a parent identity P, Child* returns a
\* span whose single reference is child-of P and Follower* one whose single
\* reference is follows-from P, in P's trace.
C6_RelationRecorded ==
    last.op \in DeriveOps /\ LastUpstream.kind = "jaeger" =>
        /\ last.span \in DOMAIN spans
        /\ spans[last.span].refs =
              <<[type |-> IF last.op \in ChildOps THEN ChildOfRef
                          ELSE FollowsFromRef,
                 ctx |-> LastUpstream]>>
        /\ spans[last.span].ctx.trace = LastUpstream.trace
        /\ spans[last.span].ctx.parent = LastUpstream.span

C6_Witness ==
    /\ last.op = "FollowerSpanFromParent"
    /\ last.parent \in DOMAIN spans
    /\ spans[last.span].refs = <<FollowsFrom(spans[last.parent].ctx)>>
    /\ spans[last.parent].refs = <<ChildOf(RemoteSC)>>

\* ---- the pipeline's returned context (SpecPipe)
\* A successful call of a jaeger tracer, given a context without prior span,
\* against an endpoint that echoes the trace header it received.
EchoedCall(c) ==
    /\ tracer = "jaeger"
    /\ c.pc = "done"
    /\ c.err = NoErr
    /\ c.served = "echo"
    /\ c.ctx # NilCtx
    /\ CtxValue(ctxs, c.ctx).tag = "none"

\* The returned context stores the identity of the span the call injected.
ReturnsInjectedIdentity(c) ==
    LET v == CtxValue(ctxs, c.newCtx)
    IN  /\ v.tag = "spanctx"
        /\ v.sc.trace = spans[c.span].ctx.trace
        /\ v.sc.span = spans[c.span].ctx.span

\* The caller's header map sets the trace-identity header itself.
SetsTraceHeader(mapHeader) ==
    \E i \in DOMAIN mapHeader : NormalizeHeaderKey(mapHeader[i].key) = TraceKey

\* C7 as claimed: every such call returns a context whose stored identity
\* is that of the span it injected.
C7_Original ==
    \A g \in Goroutines :
        EchoedCall(calls[g]) => ReturnsInjectedIdentity(calls[g])

\* C7, amended: every such call whose caller's header map does not set the
\* trace-identity header returns a context whose stored identity is that of
\* the span it injected.
C7_EchoReturnsInjectedIdentity ==
    \A g \in Goroutines :
        EchoedCall(calls[g]) /\ ~SetsTraceHeader(calls[g].mapHeader) =>
            ReturnsInjectedIdentity(calls[g])

C7_Witness ==
    \E g \in Goroutines :
        /\ EchoedCall(calls[g])
        /\ ~SetsTraceHeader(calls[g].mapHeader)
        /\ calls[g].newCtx # calls[g].ctx
        /\ CtxValue(ctxs, calls[g].newCtx).sc = spans[calls[g].span].ctx

\* ---- contexts (SpecShare, SpecCtx)
\* C8: no step changes a context object that exists: whatever ContextWithSpan,
\* CtxWithSpanCtxFrom*Header or the pipeline's response extraction associate,
\* every existing context still reads as before, and a new association is
\* carried by one new context object.
C8_ContextsNeverMutated ==
    [][/\ \A i \in DOMAIN ctxs :
             /\ i \in DOMAIN ctxs'
             /\ ctxs'[i] = ctxs[i]
             /\ CtxValue(ctxs', i) = CtxValue(ctxs, i)
       /\ Len(ctxs') <= Len(ctxs) + 1]_vars

C8_Witness ==
    \E g \in Goroutines :
        /\ calls[g].pc = "done"
        /\ calls[g].newCtx # calls[g].ctx
        /\ CtxValue(ctxs, calls[g].ctx).tag = "span"
        /\ CtxValue(ctxs, calls[g].newCtx).tag = "spanctx"
        /\ last.op = "CtxWithSpanCtxFromFasthttpHeader"
        /\ last.ctx = calls[g].ctx
        /\ last.newCtx \notin {last.ctx, calls[g].newCtx}

CtxFromHeaderOps ==
    {"CtxWithSpanCtxFromHttpHeader", "CtxWithSpanCtxFromFasthttpHeader"}

\* What the last CtxWithSpanCtxFrom*Header call extracted from its header.
LastExtracted ==
    IF last.op = "CtxWithSpanCtxFromHttpHeader"
    THEN extractFromHttpHeader(last.header).spanCtx
    ELSE extractFromFasthttpHeader(last.header).spanCtx

\* C9: a context carries at most one association: reading it gives a Span
\* or a SpanContext or nothing, never both, and a derived context gives the
\* value associated last, whatever the contexts it derives from hold.
C9_OneAssociation ==
    /\ \A ctx \in CtxInputs :
          LET info == spanInfoFromContext(ctxs, ctx)
          IN  ~(info.span # NilSpan /\ info.spanCtx # NilSC)
    /\ \A i \in DOMAIN ctxs :
          ctxs[i].key = activeSpanKey => CtxValue(ctxs, i) = ctxs[i].val
    /\ last.op = "ContextWithSpan" /\ last.ctx # NilCtx /\ last.parent # NilSpan =>
          spanInfoFromContext(ctxs, last.newCtx) =
              [span |-> last.parent, spanCtx |-> NilSC]
    /\ last.op \in CtxFromHeaderOps /\ last.ctx # NilCtx /\ LastExtracted # NilSC =>
          spanInfoFromContext(ctxs, last.newCtx) =
              [span |-> NilSpan, spanCtx |-> LastExtracted]

C9_Witness ==
    /\ tracer = "jaeger"
    /\ last.op = "CtxWithSpanCtxFromHttpHeader"
    /\ last.ctx # NilCtx
    /\ CtxValue(ctxs, last.ctx).tag = "span"
    /\ spanInfoFromContext(ctxs, last.newCtx) =
          [span |-> NilSpan, spanCtx |-> RemoteSC]

\* ---- callbacks (SpecPipe)
\* C10: in a successful call the callbacks run one after the other in the
\* order passed, each once, each with the context derived from the response
\* and the response object, after the extraction and before the body copy
\* and every release; a call that returns an error runs none.
C10_CallbacksInOrder ==
    \A g \in Goroutines :
        LET c == calls[g]
        IN  /\ c.err # NoErr => Called(c, "Callback") = {}
            /\ c.pc = "done" /\ c.err = NoErr =>
                  \E e \in Called(c, "Extract") :
                      /\ Cardinality(Called(c, "Callback")) = c.cbs
                      /\ \A n \in 1..c.cbs :
                            c.log[e + n] = Event("Callback", n, c.newCtx, c.resp)
                      /\ c.log[e].ctx = c.newCtx
                      /\ c.log[e + c.cbs + 1].ev = "Copy"
                      /\ \A r \in Called(c, "ReleaseResponse")
                                    \cup Called(c, "ReleaseRequest") :
                            r > e + c.cbs + 1

C10_Witness ==
    \E g \in Goroutines :
        /\ calls[g].pc = "done"
        /\ calls[g].err = NoErr
        /\ calls[g].cbs >= 2
        /\ calls[g].newCtx # calls[g].ctx
        /\ Cardinality(Called(calls[g], "Callback")) = calls[g].cbs

\* ---- the returned body (SpecConc)
\* The call has copied the response body (line 131).
Copied(c) == Called(c, "Copy") # {}

\* C11: the body a call returns is a buffer of its own holding the bytes the
\* endpoint answered that call with, from the copy onwards: through the
\* release of the pooled Response and through any other call's reuse of it.
C11_BodyIndependentOfPool ==
    \A g \in Goroutines :
        Copied(calls[g]) =>
            /\ ~calls[g].respBody.nil
            /\ calls[g].respBody.of = 0
            /\ Contents(respObjs, calls[g].respBody) = ResponseBody(calls[g].sent)

C11_Witness ==
    \E g, h \in Goroutines :
        /\ g # h
        /\ calls[g].pc = "done"
        /\ Copied(calls[g])
        /\ calls[h].pc = "respond"
        /\ calls[h].resp = calls[g].resp
        /\ respObjs[calls[h].resp].body # ResponseBody(calls[g].sent)
        /\ Contents(respObjs, calls[g].respBody) = ResponseBody(calls[g].sent)

\* ---- HTTP middleware (SpecMw)
\* The wrapper is serving, or has served, a request.
Traced == mw.pc # "idle" /\ mw.handler.traced

\* C12 as claimed: the middleware names the span of every inbound request
\* exactly "<METHOD> <PATH>".
C12_Original ==
    Traced /\ mw.span \in DOMAIN spans =>
        spans[mw.span].op = (mw.method \o " ") \o mw.path

\* C12, amended: the middleware names the span of every inbound request
\* exactly "HTTP <METHOD> <PATH>": the word HTTP, a space, the request
\* method, a space, the request path.
C12_OperationName ==
    Traced =>
        /\ mw.span \in DOMAIN spans
        /\ spans[mw.span].op = (("HTTP " \o mw.method) \o " ") \o mw.path

C12_Witness ==
    /\ Traced
    /\ mw.pc = "done"
    /\ mw.method = "POST"
    /\ mw.path = "/ping"
    /\ spans[mw.span].op = "HTTP POST /ping"

\* The status-code field the wrapper logged on the request's span.
LoggedStatus == spans[mw.span].logs[Len(spans[mw.span].logs)].status

\* C13: once the wrapped handler has returned, the status code logged on
\* the span is the first status code the handler wrote.
C13_FirstStatusLogged ==
    Traced /\ mw.pc = "done" /\ mw.written # <<>> =>
        LoggedStatus = mw.written[1]

\* C14: under the no-op substitution the request is served by the very
\* handler that was given to HttpMiddleWare: no span is started, no context
\* is derived and no response-writer wrapper is installed.
C14_NoopMiddlewareIsIdentity ==
    tracer = "noop" /\ mw.pc # "idle" =>
        /\ mw.handler = AppHandler
        /\ mw.span = NilSpan
        /\ spans = <<>>
        /\ mw.ctx = Background
        /\ ctxs = <<backgroundCtx>>
        /\ ~mw.tracker
        /\ mw.statusCode = 0

C14_Witness ==
    /\ tracer = "noop"
    /\ mw.pc = "done"
    /\ mw.handler = AppHandler
    /\ mw.written # <<>>
    /\ mw.sent = 404

\* ---- the no-op substitution (SpecInject, SpecShare)
InjectOps ==
    {"Inject2HttpHeader", "Inject2FasthttpHeader", "Inject2HttpHeaderByCtx",
     "Inject2FasthttpHeaderByCtx"}

\* C15: under the no-op substitution every start or derive operation
\* returns the one shared no-op span, and every inject operation returns no
\* error and leaves the header it was given as it was.
C15_NoopDeriveAndInject ==
    tracer = "noop" =>
        /\ spans = <<>>
        /\ last.op \in DeriveOps \cup {"StartSpan"} => last.span = NoopSpanH
        /\ last.op \in InjectOps =>
              /\ last.err = NoErr
              /\ last.out = last.header
              /\ last.reqOut = last.reqHeader

C15_Witness ==
    /\ tracer = "noop"
    /\ last.op = "Inject2HttpHeaderByCtx"
    /\ CtxValue(ctxs, last.ctx) = SpanVal(NoopSpanH)
    /\ last.header # <<>>
    /\ last.out = last.header
    /\ last.err = NoErr

\* C16: under the no-op substitution extraction reports absence:
\* CtxWithSpanCtxFromHttpHeader and CtxWithSpanCtxFromFasthttpHeader return
\* the context they were given, with no association added, and a successful
\* pipeline call returns the caller's context.
C16_NoopExtractionAbsent ==
    tracer = "noop" =>
        /\ last.op \in CtxFromHeaderOps =>
              /\ last.newCtx = last.ctx
              /\ CtxValue(ctxs, last.newCtx) = CtxValue(ctxs, last.ctx)
        /\ \A g \in Goroutines :
              calls[g].pc = "done" /\ calls[g].err = NoErr =>
                  calls[g].newCtx = calls[g].ctx

\* ---- extraction errors (Spec)
\* The positions of a header at which the propagator's handler fails.
FailingVisits(header) ==
    {i \in DOMAIN header : PropagatorVisit(emptyContext, header[i]).err}

\* C17: fasthttpRespHeaderCarrier.ForeachKey stops at the first pair the
\* handler fails on and returns that error: it visits no later pair, and
\* no later visit clears the error.
C17_ForeachKeyStopsAtFirstError ==
    tracer = "jaeger" /\ last.op \in FromFasthttpHeaderOps
            /\ FailingVisits(last.header) # {} =>
        LET r == fasthttpRespHeaderCarrierForeachKey(last.header, emptyContext,
                                                     FALSE, 0)
        IN  /\ r.err
            /\ \A i \in FailingVisits(last.header) : r.seen <= i

\* The error of the extraction the last header-based call made.
LastExtractionErr ==
    IF last.op \in FromHttpHeaderOps \cup {"CtxWithSpanCtxFromHttpHeader"}
    THEN extractFromHttpHeader(last.header).err
    ELSE extractFromFasthttpHeader(last.header).err

\* The last call ended as it does when the header carries no context: a
\* span without reference, or the context it was given.
LastAbsentOutcome ==
    IF last.op \in CtxFromHeaderOps THEN last.newCtx = last.ctx
    ELSE last.opts = <<>> /\ IsRoot(last.span)

\* C18: with a real tracer no header-based operation gives a failed
\* extraction the outcome it gives an absent context.
C18_FailedExtractionDistinct ==
    tracer = "jaeger"
        /\ last.op \in FromHttpHeaderOps \cup FromFasthttpHeaderOps
                           \cup CtxFromHeaderOps
        /\ (last.ctx # NilCtx \/ last.op \notin CtxFromHeaderOps)
        /\ LastExtractionErr \notin {NoErr, ErrSpanContextNotFound}
    => ~LastAbsentOutcome

\* ---- inject then extract (SpecCodec)
RoundTripOps == {"InjectExtractHttpHeader", "InjectExtractFasthttpHeader"}

\* The identity the last round trip injected.
LastInjected == spans[last.parent].ctx

\* The last round trip recovered the trace id, span id and sampled flag.
RecoversIds ==
    /\ last.err = NoErr
    /\ last.sc.trace = LastInjected.trace
    /\ last.sc.span = LastInjected.span
    /\ last.sc.flags = LastInjected.flags

\* C19 as claimed: injecting a started span's identity into an empty carrier
\* and extracting from it recovers the trace id, span id, sampled flag and
\* the baggage set, for both carriers.
C19_Original ==
    tracer = "jaeger" /\ last.op \in RoundTripOps =>
        /\ RecoversIds
        /\ last.sc.baggage = LastInjected.baggage

\* C19, amended: the round trip recovers the trace id, span id and sampled
\* flag, and the baggage set with every key lower-cased (so baggage whose
\* keys have no upper-case letter is recovered as it was), for both carriers.
C19_RoundTrip ==
    tracer = "jaeger" /\ last.op \in RoundTripOps =>
        /\ RecoversIds
        /\ last.sc.baggage =
              {Pair(ToLower(i.key), i.val) : i \in LastInjected.baggage}
        /\ (\A i \in LastInjected.baggage : ToLower(i.key) = i.key) =>
              last.sc.baggage = LastInjected.baggage

C19_Witness ==
    /\ tracer = "jaeger"
    /\ last.op = "InjectExtractFasthttpHeader"
    /\ RecoversIds
    /\ LastInjected.trace # LastInjected.span
    /\ Cardinality(LastInjected.baggage) = 2
    /\ Pair("userid", OtherValue) \in last.sc.baggage
    /\ Pair("tenant", OtherValue) \in last.sc.baggage

\* ---- URL building (SpecUrl)
\* The entries of q in the order o, each as k=v, joined by '&'.
RECURSIVE JoinParams(_, _)
JoinParams(q, o) ==
    IF Len(o) = 1 THEN o[1] \o <<"=">> \o q.m[o[1]]
    ELSE (o[1] \o <<"=">> \o q.m[o[1]] \o <<"&">>) \o JoinParams(q, Tail(o))

\* C20: MakeupUrlByHostPathQueryParams(host, path, q) returns exactly
\* host+path when q is nil or empty; when q is non-empty it returns
\* host+path+"?" followed by the entries of q, each key exactly once as
\* "k=v", joined by "&" in some order, with no leading or trailing separator.
C20_MakeupUrl ==
    last.op = "MakeupUrlByHostPathQueryParams" =>
        LET u == last.url
        IN  IF LenParams(u.q) = 0 THEN u.url = u.host \o u.path
            ELSE \E o \in RangeOrders(u.q) :
                    u.url = (u.host \o u.path \o <<"?">>) \o JoinParams(u.q, o)

C20_Witness ==
    /\ last.op = "MakeupUrlByHostPathQueryParams"
    /\ last.url.host = <<"h", ":", "8">>
    /\ last.url.path = <<"/", "p">>
    /\ last.url.q = Params([k \in {<<"k">>, <<"i", "d">>} |->
                              IF k = <<"k">> THEN <<"v">> ELSE <<>>])
    /\ last.url.url = <<"h", ":", "8", "/", "p", "?",
                        "i", "d", "=", "&", "k", "=", "v">>

\* ---- caller overrides (SpecPipe)
\* The call went out: the transport was handed the request.
Sent(c) == Called(c, "Send") # {}

\* The entries of the caller's header map stored under the key of the
\* pipeline's default, the JSON content type.
ContentTypeOverrides(c) ==
    {i \in DOMAIN c.mapHeader :
        NormalizeHeaderKey(c.mapHeader[i].key) = "Content-Type"}

\* C21: the caller's headers are applied after the pipeline's defaults: when
\* a body is supplied and the caller's header map holds the content-type
\* key, the request that is sent carries the caller's value, not the JSON
\* content type.
C21_CallerOverridesWin ==
    \A g \in Goroutines :
        LET c == calls[g]
        IN  Sent(c) /\ c.jsonData # NilData =>
                \A i \in ContentTypeOverrides(c) :
                    /\ "Content-Type" \in DOMAIN c.sent.header
                    /\ c.sent.header["Content-Type"] = c.mapHeader[i].val

C21_Witness ==
    \E g \in Goroutines :
        LET c == calls[g]
        IN  /\ Sent(c)
            /\ c.jsonData = GoodData
            /\ ContentTypeOverrides(c) # {}
            /\ c.sent.header["Content-Type"] = TextPlain
            /\ c.sent.body = JsonBytes
            /\ "sid" \in DOMAIN c.sent.cookies

\* ---- what an inject call writes (SpecInject)
\* The identity the last inject call was asked to write: that of the span
\* it was given or of the live Span its context holds, else the SpanContext
\* its context holds, else none.
LastSource ==
    IF last.op \in {"Inject2HttpHeader", "Inject2FasthttpHeader"}
    THEN IF last.parent = NilSpan THEN NilSC
         ELSE SpanContextOf(spans, last.parent)
    ELSE LET v == CtxValue(ctxs, last.ctx)
         IN  CASE v.tag = "span" -> SpanContextOf(spans, v.span)
               [] v.tag = "spanctx" -> v.sc
               [] OTHER -> NilSC

\* The values the header holds under the trace-context key after the call.
LastTraceValues ==
    IF last.op \in {"Inject2HttpHeader", "Inject2HttpHeaderByCtx"}
    THEN {last.out[i].val : i \in {j \in DOMAIN last.out :
              NormalizeHeaderKey(last.out[j].key) = TraceKey}}
    ELSE IF TraceKey \in DOMAIN last.reqOut THEN {last.reqOut[TraceKey]} ELSE {}

RefsFromHeader(header) ==
    LET e == extractFromHttpHeader(header)
    IN  IF e.spanCtx # NilSC /\ isValidReference(e.spanCtx)
        THEN <<ChildOf(e.spanCtx)>> ELSE <<>>

\* The positions of ev in the middleware's log.
MwCalled(ev) == {i \in DOMAIN mw.log : mw.log[i] = ev}

\* C23: for every inbound request handled by the middleware of a real
\* tracer, the span is started from the inbound headers, then stored in the
\* request's context, then the wrapped handler is called with that context
\* (a ChildSpanFromContext inside the handler derives from the middleware's
\* span), and only after the handler has returned are the status code and
\* the component logged on the span and the span finished, exactly once.
C23_MiddlewareOrder ==
    tracer = "jaeger" /\ mw.pc # "idle" =>
        /\ mw.span \in DOMAIN spans
        /\ spans[mw.span].refs = RefsFromHeader(mw.header)
        /\ CtxValue(ctxs, mw.ctx) = SpanVal(mw.span)
        /\ SubSeq(mw.log, 1, 3) =
              <<"ChildSpanFromHttpHeader", "ContextWithSpan", "ServeHTTP">>
        /\ mw.child # NilSpan =>
              /\ spans[mw.child].refs = <<ChildOf(spans[mw.span].ctx)>>
              /\ spans[mw.child].ctx.trace = spans[mw.span].ctx.trace
        /\ mw.pc = "handler" =>
              /\ spans[mw.span].finished = 0
              /\ spans[mw.span].logs = <<>>
        /\ mw.pc = "done" =>
              /\ spans[mw.span].finished = 1
              /\ spans[mw.span].logs =
                    <<[component |-> "ot-mw-tracer", status |-> mw.statusCode]>>
              /\ SubSeq(mw.log, Len(mw.log) - 2, Len(mw.log)) =
                    <<"return", "LogFields", "Finish">>
              /\ Cardinality(MwCalled("Finish")) = 1
              /\ \A i \in MwCalled("ChildSpanFromContext") :
                    \A j \in MwCalled("return") : 3 < i /\ i < j

C23_Witness ==
    /\ tracer = "jaeger"
    /\ mw.pc = "done"
    /\ mw.child # NilSpan
    /\ spans[mw.span].refs = <<ChildOf(RemoteSC)>>
    /\ spans[mw.child].refs = <<ChildOf(spans[mw.span].ctx)>>
    /\ spans[mw.span].finished = 1
    /\ mw.written = <<404>>

\* C26: in the middleware of a real tracer, when the wrapped handler returns
\* without ever calling WriteHeader, the status code logged on the span is
\* 0, while the status sent is the implicit 200.
C26_ImplicitStatusLoggedAsZero ==
    tracer = "jaeger" /\ mw.pc = "done" /\ mw.written = <<>> =>
        /\ LoggedStatus = 0
        /\ mw.sent = 200

C26_Witness ==
    /\ tracer = "jaeger"
    /\ mw.pc = "done"
    /\ mw.written = <<>>
    /\ mw.body
    /\ mw.sent = 200
    /\ spans[mw.span].logs = <<[component |-> "ot-mw-tracer", status |-> 0]>>

\* C27: in the middleware of a real tracer, when the wrapped handler panics
\* the span started for the request is never finished and no status code is
\* logged on it.
C27_PanicLeavesSpanOpen ==
    tracer = "jaeger" /\ mw.pc = "panicked" =>
        /\ spans[mw.span].finished = 0
        /\ spans[mw.span].logs = <<>>
        /\ MwCalled("LogFields") = {}
        /\ MwCalled("Finish") = {}

C27_Witness ==
    /\ tracer = "jaeger"
    /\ mw.pc = "panicked"
    /\ mw.written = <<500>>
    /\ mw.span \in DOMAIN spans
    /\ spans[mw.span].finished = 0
    /\ spans[mw.span].logs = <<>>

\* ---- what the pipeline returns (SpecPipe)
\* The call returned to its caller.
Returned(c) == c.pc = "done"

\* C24: on every error exit of the pipeline (injection, serialization or
\* transport failure) the returned context is nil, not the caller's, and the
\* returned body is nil; and when the caller passes a nil context the
\* returned context is nil and every callback receives a nil context, even
\* on success.
C24_NilContextOnErrorAndNilInput ==
    \A g \in Goroutines :
        LET c == calls[g]
        IN  /\ Returned(c) /\ c.err # NoErr =>
                  /\ c.newCtx = NilCtx
                  /\ c.respBody = NilBody
            /\ c.ctx = NilCtx =>
                  /\ c.newCtx = NilCtx
                  /\ \A i \in Called(c, "Callback") : c.log[i].ctx = NilCtx

C24_Witness ==
    \E g \in Goroutines :
        LET c == calls[g]
        IN  /\ Returned(c)
            /\ c.err = ErrTimeout
            /\ c.ctx # NilCtx
            /\ CtxValue(ctxs, c.ctx).tag = "span"
            /\ c.newCtx = NilCtx
            /\ c.respBody = NilBody

\* C28: the caller's header map is applied after the injection, so a
\* caller's header under the trace-identity header name replaces the
\* injected value: the request that is sent carries the caller's value and
\* not the identity of the span the pipeline started.
C28_CallerTraceHeaderReplacesInjected ==
    \A g \in Goroutines :
        LET c == calls[g]
        IN  tracer = "jaeger" /\ Sent(c) =>
                \A i \in DOMAIN c.mapHeader :
                    NormalizeHeaderKey(c.mapHeader[i].key) = TraceKey =>
                        /\ c.sent.header[TraceKey] = c.mapHeader[i].val
                        /\ c.sent.header[TraceKey] #
                              SpanContextString(spans[c.span].ctx)

C28_Witness ==
    \E g \in Goroutines :
        LET c == calls[g]
        IN  /\ tracer = "jaeger"
            /\ Returned(c)
            /\ c.err = NoErr
            /\ SetsTraceHeader(c.mapHeader)
            /\ c.sent.header[TraceKey] = SpanContextString(ForeignSC)
            /\ spans[c.span].ctx.trace # ForeignTrace

\* ---- deriving from the returned context (SpecReturn)
\* The identity the response to the call carried, none if it carried none.
ResponseIdentity(c) ==
    extractFromFasthttpHeader(ServerHeader(c.served, c.sent)).spanCtx

\* A successful call of a real tracer, from a non-nil context, whose
\* response carried an identity.
AnsweredWithIdentity(c) ==
    /\ tracer = "jaeger"
    /\ Returned(c)
    /\ c.err = NoErr
    /\ c.ctx # NilCtx
    /\ ResponseIdentity(c) # NilSC

\* C25: after a successful pipeline call whose response carries a span
\* context, the returned context's association is that extracted
\* SpanContext, in place of any live Span the caller's context held; a
\* ChildSpanFromContext on the returned context derives from the response's
\* identity and not from the caller's span.
C25_ReturnedContextHoldsResponseIdentity ==
    \A g \in Goroutines :
        LET c == calls[g]
            held == CtxValue(ctxs, c.ctx)
        IN  AnsweredWithIdentity(c) =>
                /\ c.newCtx # c.ctx
                /\ ctxs[c.newCtx].parent = c.ctx
                /\ CtxValue(ctxs, c.newCtx) = SpanCtxVal(ResponseIdentity(c))
                /\ last.op = "ChildSpanFromContext" /\ last.ctx = c.newCtx =>
                      /\ spans[last.span].refs = <<ChildOf(ResponseIdentity(c))>>
                      /\ held.tag = "span" =>
                            spans[last.span].ctx.parent # spans[held.span].ctx.span

C25_Witness ==
    \E g \in Goroutines :
        LET c == calls[g]
        IN  /\ AnsweredWithIdentity(c)
            /\ c.served = "remote"
            /\ CtxValue(ctxs, c.ctx).tag = "span"
            /\ last.op = "ChildSpanFromContext"
            /\ last.ctx = c.newCtx
            /\ spans[last.span].ctx.trace = RemoteTrace
            /\ spans[last.span].ctx.parent = RemoteSpan

====
